---------------------------- MODULE Spec2Model ----------------------------
(***************************************************************************)
(* Model of the lightway utility packages:                                 *)
(*   - pkg/httpclient: RetryConfig (applyDefaults, backoff, isRetryable),  *)
(*     Client.WithRetry and the attempt loop of Client.RequestBytes;       *)
(*   - pkg/router: responseWriter, Router.Handle's standard handler and    *)
(*     the middleware chain around it; NewRouter, Group, Use, Handle, the  *)
(*     route log and the mux they share.                                   *)
(*                                                                         *)
(* Durations are milliseconds held in a signed integer of DurBits bits     *)
(* (time.Duration is an int64 of nanoseconds; the narrower width keeps the *)
(* conversion overflow of backoff within the reach of TLC).                *)
(***************************************************************************)
EXTENDS Integers, Sequences, FiniteSets, TLC

VARIABLES
    \* ---- pkg/httpclient ----
    clients,      \* sequence of Client values: [retryConfig, arg, caller]
    pc,           \* position of the RequestBytes call
    self,         \* index in clients of the receiver of the call
    reqOK,        \* whether http.NewRequestWithContext accepts method/url/ctx
    maxAttempts,  \* local maxAttempts
    attempt,      \* loop variable attempt
    dispatched,   \* number of c.httpClient.Do calls made by the call
    history,      \* outcome of every Do call, in order
    waits,        \* delay of every backoff wait entered, in order
    lastErr,      \* local lastErr
    lastBody,     \* local lastBody
    ctxDone,      \* ctx.Done() is closed
    woken,        \* which case of the select the goroutine proceeds with
    decisions,    \* what the call did after every Do call, in order
    cancelledIn,  \* position of the call when the context became done
    retBody,      \* returned []byte
    retErr,       \* returned error
    \* ---- RetryConfig.backoff as a pure function ----
    bk,           \* [phase, cfg, n, prev, cur]
    \* ---- pkg/router ----
    rt,           \* state of one request dispatched through the router
    rt2,          \* state of a second request, served by the same route
    \* ---- RetryConfig.applyDefaults as a pure function ----
    df,           \* [phase, in, out]
    \* ---- route registration ----
    rg,           \* routers, route log, mux and the last request served
    \* ---- pkg/cors ----
    co            \* the middleware made by New and the last request it served

clientVars == <<clients, pc, self, reqOK, maxAttempts, attempt, dispatched,
                history, waits, lastErr, lastBody, ctxDone, woken, decisions,
                cancelledIn, retBody, retErr>>
vars == <<clientVars, bk, rt, rt2, df, rg, co>>

-----------------------------------------------------------------------------
(* Bounds *)

\* width in bits of the modelled time.Duration
DurBits == 16
\* largest MaxRetries a caller passes to WithRetry in the model
MaxRetriesArg == 2
\* largest attempt index backoff is applied to
MaxBackoffIdx == 7
\* number of clients derived with WithRetry
MaxDerived == 1
\* longest middleware chain around a route
MaxChain == 2
\* most calls a handler makes on its context
MaxHandlerCalls == 2
\* number of Group, Use and Handle calls made on the routers of one tree
MaxOps == 5
\* number of middleware given to WithMiddleware
MaxOuter == 2

-----------------------------------------------------------------------------
(* Program constants *)

DefaultMaxRetries == 3
DefaultBaseDelay == 500
DefaultMaxDelay == 10000
DefaultRetryOn == {429, 502, 503, 504}
ErrorStatusFloor == 400

-----------------------------------------------------------------------------
(* time.Duration *)

RECURSIVE Pow2(_)
Pow2(n) == IF n = 0 THEN 1 ELSE 2 * Pow2(n - 1)

MaxDur == Pow2(DurBits - 1) - 1
MinDur == 0 - Pow2(DurBits - 1)

\* time.Duration(f) for a float64 f holding an integral value: exact when
\* the value is representable; otherwise the Go specification leaves the
\* result to the implementation (the most negative value on amd64, the
\* saturated value on arm64).
DurationOfFloat(f) ==
    IF f >= MinDur /\ f <= MaxDur THEN {f}
    ELSE IF f > MaxDur THEN {MinDur, MaxDur}
    ELSE {MinDur}

-----------------------------------------------------------------------------
(* RetryConfig *)

\* faulty variant: the default set is installed whenever RetryOn is empty
applyDefaults_ignoresPredicate(r) ==
    [MaxRetries  |-> IF r.MaxRetries <= 0 THEN DefaultMaxRetries ELSE r.MaxRetries,
     BaseDelay   |-> IF r.BaseDelay <= 0 THEN DefaultBaseDelay ELSE r.BaseDelay,
     MaxDelay    |-> IF r.MaxDelay <= 0 THEN DefaultMaxDelay ELSE r.MaxDelay,
     RetryOn     |-> IF r.RetryOn = {} THEN DefaultRetryOn ELSE r.RetryOn,
     ShouldRetry |-> r.ShouldRetry]

applyDefaults(r) ==
    [MaxRetries  |-> IF r.MaxRetries <= 0 THEN DefaultMaxRetries ELSE r.MaxRetries,
     BaseDelay   |-> IF r.BaseDelay <= 0 THEN DefaultBaseDelay ELSE r.BaseDelay,
     MaxDelay    |-> IF r.MaxDelay <= 0 THEN DefaultMaxDelay ELSE r.MaxDelay,
     RetryOn     |-> IF r.RetryOn = {} /\ r.ShouldRetry.isNil
                     THEN DefaultRetryOn ELSE r.RetryOn,
     ShouldRetry |-> r.ShouldRetry]

\* the set of values backoff(attempt) can return
backoff(r, n) ==
    { IF delay > r.MaxDelay THEN r.MaxDelay ELSE delay :
        delay \in DurationOfFloat(r.BaseDelay * Pow2(n)) }

\* The result of one c.httpClient.Do call followed by io.ReadAll:
\* a transport error, or a response with a status code whose body could
\* (readOK) or could not be read.
ErrOutcome == [err |-> TRUE, status |-> 0, readOK |-> TRUE]
Resp(s) == [err |-> FALSE, status |-> s, readOK |-> TRUE]
Unread(s) == [err |-> FALSE, status |-> s, readOK |-> FALSE]

\* A ShouldRetry predicate is nil, or the set of (resp, err) arguments it
\* returns true for.
NoPredicate == [isNil |-> TRUE, accepts |-> {}]
Predicate(S) == [isNil |-> FALSE, accepts |-> S]

\* faulty variant: every failure is retried when no predicate is set
isRetryable_anyStatus(r, o) ==
    IF ~r.ShouldRetry.isNil THEN o \in r.ShouldRetry.accepts
    ELSE TRUE

\* faulty variant: a transport error is retried before the predicate is consulted
isRetryable_errFirst(r, o) ==
    IF o.err THEN TRUE
    ELSE IF ~r.ShouldRetry.isNil THEN o \in r.ShouldRetry.accepts
    ELSE o.status \in r.RetryOn

\* faulty variant: only the status set is consulted, a transport error is final
isRetryable_setOnly(r, o) ==
    IF ~r.ShouldRetry.isNil THEN o \in r.ShouldRetry.accepts
    ELSE ~o.err /\ o.status \in r.RetryOn

isRetryable(r, o) ==
    IF ~r.ShouldRetry.isNil THEN o \in r.ShouldRetry.accepts
    ELSE IF o.err THEN TRUE
    ELSE o.status \in r.RetryOn

-----------------------------------------------------------------------------
(* Inputs of the client model *)

Statuses == {200, 399, 400, 409, 503}

RetryConfigArgs ==
    \* set-based policies
    [MaxRetries  : 0 .. MaxRetriesArg,
     BaseDelay   : {0},
     MaxDelay    : {0},
     RetryOn     : {{}, {399, 503}},
     ShouldRetry : {NoPredicate}]
    \cup
    \* predicate-based policies
    [MaxRetries  : 0 .. MaxRetriesArg,
     BaseDelay   : {0},
     MaxDelay    : {0},
     RetryOn     : {{399, 503}},
     ShouldRetry : {Predicate({ErrOutcome, Resp(409)}), Predicate({Resp(503)})}]
    \cup
    \* explicit and negative fields
    [MaxRetries  : {-1, MaxRetriesArg},
     BaseDelay   : {200},
     MaxDelay    : {-1, 300},
     RetryOn     : {{}},
     ShouldRetry : {NoPredicate}]

ZeroRetryConfig ==
    [MaxRetries |-> 0, BaseDelay |-> 0, MaxDelay |-> 0, RetryOn |-> {},
     ShouldRetry |-> NoPredicate]

-----------------------------------------------------------------------------
(* Errors and bodies *)

NilErr == [kind |-> "nil"]
NilBody == [of |-> 0, status |-> 0]
\* the body read from the response of the n-th Do call
BodyOf(n, s) == [of |-> n, status |-> s]
MarshalErr == [kind |-> "marshal"]
CreateErr == [kind |-> "create"]
ReadErr == [kind |-> "read"]
CtxErr == [kind |-> "ctx"]
\* fmt.Errorf("failed to execute request: %w", err) of the n-th Do call
ExecuteErr(n) == [kind |-> "execute", of |-> n]
\* fmt.Errorf("api error status %d", resp.StatusCode) of the n-th Do call
StatusErr(n, s) == [kind |-> "status", of |-> n, status |-> s]
\* faulty variant: the count of retries instead of the count of attempts
ExhaustedErr_countsRetries(n, e) ==
    [kind |-> "exhausted", attempts |-> n - 1, wraps |-> e]

\* fmt.Errorf("all %d attempts failed: %w", maxAttempts, lastErr)
ExhaustedErr(n, e) == [kind |-> "exhausted", attempts |-> n, wraps |-> e]

-----------------------------------------------------------------------------
(* Client *)

\* NewClient: no retry policy
NewClient == [hasRetry |-> FALSE, retryConfig |-> ZeroRetryConfig,
              arg |-> ZeroRetryConfig, caller |-> ZeroRetryConfig]

\* faulty variant: the client keeps a pointer to the caller's RetryConfig
PolicyOf_callerValue(cl) == applyDefaults(cl.caller)

\* *c.retryConfig: the copy WithRetry made of its by-value parameter
PolicyOf(cl) == cl.retryConfig

ClientInit ==
    /\ clients = <<NewClient>>
    /\ pc = "idle"
    /\ self = 0
    /\ reqOK = TRUE
    /\ maxAttempts = 0
    /\ attempt = 0
    /\ dispatched = 0
    /\ history = <<>>
    /\ waits = <<>>
    /\ lastErr = NilErr
    /\ lastBody = NilBody
    /\ ctxDone = FALSE
    /\ woken = "none"
    /\ decisions = <<>>
    /\ cancelledIn = "never"
    /\ retBody = NilBody
    /\ retErr = NilErr

\* c.WithRetry(cfg): a new client holding the defaulted copy of cfg
WithRetry(c, cfg) ==
    /\ pc = "idle"
    /\ Len(clients) < 1 + MaxDerived
    /\ clients' = Append(clients,
                         [hasRetry |-> TRUE, retryConfig |-> applyDefaults(cfg),
                          arg |-> cfg, caller |-> cfg])
    /\ UNCHANGED <<pc, self, reqOK, maxAttempts, attempt, dispatched, history,
                   waits, lastErr, lastBody, ctxDone, woken, decisions, cancelledIn,
                   retBody, retErr>>
    /\ UNCHANGED <<bk, rt, rt2, df, rg, co>>

\* faulty variant: the first attempt is counted as one of the retries
MaxAttemptsOf_noInitial(cl) ==
    IF cl.hasRetry THEN PolicyOf(cl).MaxRetries ELSE 1

\* maxAttempts := 1; with a retry policy, 1 + retryCfg.MaxRetries
MaxAttemptsOf(cl) ==
    IF cl.hasRetry THEN 1 + PolicyOf(cl).MaxRetries ELSE 1

\* faulty variant: redirect-class statuses count as failures
IsFailureStatus_from300(s) == s >= 300

\* faulty variant: strict comparison
IsFailureStatus_above400(s) == s > ErrorStatusFloor

\* resp.StatusCode >= 400
IsFailureStatus(s) == s >= ErrorStatusFloor

Return(body, err) ==
    /\ pc' = "done"
    /\ retBody' = body
    /\ retErr' = err

\* RequestBytes up to the attempt loop: json.Marshal and maxAttempts
Call(c, marshals, valid) ==
    /\ pc = "idle"
    /\ self' = c
    /\ reqOK' = valid
    /\ IF ~marshals
       THEN /\ Return(NilBody, MarshalErr)
            /\ UNCHANGED maxAttempts
       ELSE /\ pc' = "loop"
            /\ maxAttempts' = MaxAttemptsOf(clients[c])
            /\ UNCHANGED <<retBody, retErr>>
    /\ UNCHANGED <<clients, attempt, dispatched, history, waits, lastErr,
                   lastBody, ctxDone, woken, decisions, cancelledIn>>
    /\ UNCHANGED <<bk, rt, rt2, df, rg, co>>

retryCfg == PolicyOf(clients[self])

\* the context is cancelled or its deadline passes; a goroutine parked in
\* the select is woken by the first of its channels to become ready
Cancel ==
    /\ pc # "done"
    /\ ~ctxDone
    /\ ctxDone' = TRUE
    /\ woken' = IF pc = "backoff" /\ woken = "none" THEN "ctx" ELSE woken
    /\ cancelledIn' = pc
    /\ UNCHANGED <<clients, pc, self, reqOK, maxAttempts, attempt, dispatched,
                   history, waits, lastErr, lastBody, decisions, retBody, retErr>>
    /\ UNCHANGED <<bk, rt, rt2, df, rg, co>>

\* the delay computed at the loop head of attempt a > 0; one faulty variant
retryDelay_sameIndex(r, a) == backoff(r, a)
retryDelay(r, a) == backoff(r, a - 1)

\* loop head with attempt > 0: compute the delay and enter the select.  A
\* context already done is ready when the select is entered; a timer of a
\* non-positive delay is ready as well, and the select picks either.
BeginBackoff ==
    /\ pc = "loop"
    /\ attempt < maxAttempts
    /\ attempt > 0
    /\ \E delay \in retryDelay(retryCfg, attempt) :
         /\ waits' = Append(waits, delay)
         /\ woken' \in IF ~ctxDone THEN {"none"}
                       ELSE IF delay <= 0 THEN {"ctx", "timer"}
                       ELSE {"ctx"}
    /\ pc' = "backoff"
    /\ UNCHANGED <<clients, self, reqOK, maxAttempts, attempt, dispatched,
                   history, lastErr, lastBody, ctxDone, decisions, cancelledIn, retBody,
                   retErr>>
    /\ UNCHANGED <<bk, rt, rt2, df, rg, co>>

\* time.After(delay) delivers while the goroutine is parked in the select
TimerFire ==
    /\ pc = "backoff"
    /\ woken = "none"
    /\ woken' = "timer"
    /\ UNCHANGED <<clients, pc, self, reqOK, maxAttempts, attempt, dispatched,
                   history, waits, lastErr, lastBody, ctxDone, decisions, cancelledIn,
                   retBody, retErr>>
    /\ UNCHANGED <<bk, rt, rt2, df, rg, co>>

\* faulty variant: the cancellation case falls through to the attempt
SelectCtxDone_fallsThrough ==
    /\ pc = "backoff"
    /\ woken = "ctx"
    /\ pc' = "build"
    /\ UNCHANGED <<clients, self, reqOK, maxAttempts, attempt, dispatched,
                   history, waits, lastErr, lastBody, ctxDone, woken, decisions,
                   cancelledIn, retBody, retErr>>
    /\ UNCHANGED <<bk, rt, rt2, df, rg, co>>

\* case <-ctx.Done(): return lastBody, ctx.Err()
SelectCtxDone ==
    /\ pc = "backoff"
    /\ woken = "ctx"
    /\ Return(lastBody, CtxErr)
    /\ UNCHANGED <<clients, self, reqOK, maxAttempts, attempt, dispatched,
                   history, waits, lastErr, lastBody, ctxDone, woken, decisions, cancelledIn>>
    /\ UNCHANGED <<bk, rt, rt2, df, rg, co>>

\* faulty variant: the timer case starts the wait again
SelectTimer_rearms ==
    /\ pc = "backoff"
    /\ woken = "timer"
    /\ woken' = IF ctxDone THEN "ctx" ELSE "none"
    /\ UNCHANGED <<clients, pc, self, reqOK, maxAttempts, attempt, dispatched,
                   history, waits, lastErr, lastBody, ctxDone, decisions,
                   cancelledIn, retBody, retErr>>
    /\ UNCHANGED <<bk, rt, rt2, df, rg, co>>

\* case <-time.After(delay): fall through to the attempt
SelectTimer ==
    /\ pc = "backoff"
    /\ woken = "timer"
    /\ pc' = "build"
    /\ UNCHANGED <<clients, self, reqOK, maxAttempts, attempt, dispatched,
                   history, waits, lastErr, lastBody, ctxDone, woken, decisions, cancelledIn,
                   retBody, retErr>>
    /\ UNCHANGED <<bk, rt, rt2, df, rg, co>>

\* loop head with attempt = 0: no wait
FirstAttempt ==
    /\ pc = "loop"
    /\ attempt < maxAttempts
    /\ attempt = 0
    /\ pc' = "build"
    /\ UNCHANGED <<clients, self, reqOK, maxAttempts, attempt, dispatched,
                   history, waits, lastErr, lastBody, ctxDone, woken, decisions, cancelledIn,
                   retBody, retErr>>
    /\ UNCHANGED <<bk, rt, rt2, df, rg, co>>

\* http.NewRequestWithContext fails
BuildFails ==
    /\ pc = "build"
    /\ ~reqOK
    /\ Return(NilBody, CreateErr)
    /\ UNCHANGED <<clients, self, reqOK, maxAttempts, attempt, dispatched,
                   history, waits, lastErr, lastBody, ctxDone, woken, decisions, cancelledIn>>
    /\ UNCHANGED <<bk, rt, rt2, df, rg, co>>

\* the request is built and c.httpClient.Do(req) is called; the transport
\* refuses a request whose context is already done
Dispatch ==
    /\ pc = "build"
    /\ reqOK
    /\ pc' = IF ctxDone THEN "refused" ELSE "inflight"
    /\ dispatched' = dispatched + 1
    /\ UNCHANGED <<clients, self, reqOK, maxAttempts, attempt, history, waits,
                   lastErr, lastBody, ctxDone, woken, decisions, cancelledIn, retBody, retErr>>
    /\ UNCHANGED <<bk, rt, rt2, df, rg, co>>

\* continue: attempt++ and back to the loop condition
Continue ==
    /\ pc' = "loop"
    /\ attempt' = attempt + 1
    /\ decisions' = Append(decisions, "continue")
    /\ UNCHANGED <<retBody, retErr>>

\* Do returns an error
DoFails ==
    /\ pc \in {"inflight", "refused"}
    /\ history' = Append(history, ErrOutcome)
    /\ lastErr' = ExecuteErr(dispatched)
    /\ IF clients[self].hasRetry /\ isRetryable(retryCfg, ErrOutcome)
       THEN Continue
       ELSE /\ Return(NilBody, lastErr')
            /\ decisions' = Append(decisions, "return")
            /\ UNCHANGED attempt
    /\ UNCHANGED <<clients, self, reqOK, maxAttempts, dispatched, waits,
                   lastBody, ctxDone, woken, cancelledIn>>
    /\ UNCHANGED <<bk, rt, rt2, df, rg, co>>

\* faulty variant: a body that cannot be read counts as a failed attempt
ReadFails_retried(s) ==
    /\ pc = "inflight"
    /\ history' = Append(history, Unread(s))
    /\ lastErr' = ReadErr
    /\ IF clients[self].hasRetry /\ isRetryable(retryCfg, Resp(s))
       THEN Continue
       ELSE /\ Return(NilBody, ReadErr)
            /\ decisions' = Append(decisions, "abort")
            /\ UNCHANGED attempt
    /\ UNCHANGED <<clients, self, reqOK, maxAttempts, dispatched, waits,
                   lastBody, ctxDone, woken, cancelledIn>>
    /\ UNCHANGED <<bk, rt, rt2, df, rg, co>>

\* Do returns a response but io.ReadAll fails
ReadFails(s) ==
    /\ pc = "inflight"
    /\ history' = Append(history, Unread(s))
    /\ decisions' = Append(decisions, "abort")
    /\ Return(NilBody, ReadErr)
    /\ UNCHANGED <<clients, self, reqOK, maxAttempts, attempt, dispatched,
                   waits, lastErr, lastBody, ctxDone, woken, cancelledIn>>
    /\ UNCHANGED <<bk, rt, rt2, df, rg, co>>

\* Do returns a response with status s and its body is read
Respond(s) ==
    /\ pc = "inflight"
    /\ history' = Append(history, Resp(s))
    /\ IF IsFailureStatus(s)
       THEN /\ lastBody' = BodyOf(dispatched, s)
            /\ lastErr' = StatusErr(dispatched, s)
            /\ IF clients[self].hasRetry /\ isRetryable(retryCfg, Resp(s))
               THEN Continue
               ELSE /\ Return(lastBody', lastErr')
                    /\ decisions' = Append(decisions, "return")
                    /\ UNCHANGED attempt
       ELSE /\ Return(BodyOf(dispatched, s), NilErr)
            /\ decisions' = Append(decisions, "success")
            /\ UNCHANGED <<lastBody, lastErr, attempt>>
    /\ UNCHANGED <<clients, self, reqOK, maxAttempts, dispatched, waits,
                   ctxDone, woken, cancelledIn>>
    /\ UNCHANGED <<bk, rt, rt2, df, rg, co>>

\* the loop condition fails: all attempts exhausted
Exhausted ==
    /\ pc = "loop"
    /\ ~(attempt < maxAttempts)
    /\ Return(lastBody, ExhaustedErr(maxAttempts, lastErr))
    /\ UNCHANGED <<clients, self, reqOK, maxAttempts, attempt, dispatched,
                   history, waits, lastErr, lastBody, ctxDone, woken, decisions, cancelledIn>>
    /\ UNCHANGED <<bk, rt, rt2, df, rg, co>>

Next ==
    \/ \E c \in 1 .. Len(clients), cfg \in RetryConfigArgs : WithRetry(c, cfg)
    \/ \E c \in 1 .. Len(clients), marshals \in BOOLEAN, valid \in BOOLEAN :
         Call(c, marshals, valid)
    \/ Cancel
    \/ FirstAttempt
    \/ BeginBackoff
    \/ TimerFire
    \/ SelectCtxDone
    \/ SelectTimer
    \/ BuildFails
    \/ Dispatch
    \/ DoFails
    \/ \E s \in Statuses : ReadFails(s)
    \/ \E s \in Statuses : Respond(s)
    \/ Exhausted

BkIdle == [cfg |-> ZeroRetryConfig, n |-> 0, prev |-> 0, cur |-> 0]
RtIdle == [phase |-> "off"]
DfIdle == [phase |-> "off"]
RgIdle == [phase |-> "off"]
CoIdle == [phase |-> "off"]

Init ==
    /\ ClientInit
    /\ co = CoIdle
    /\ bk = BkIdle /\ rt = RtIdle /\ rt2 = RtIdle /\ df = DfIdle /\ rg = RgIdle
Spec == Init /\ [][Next]_vars

\* The goroutine running the call keeps being scheduled, the timer of a
\* backoff wait fires and every network call returns; nothing obliges the
\* caller to cancel the context or to start a call.
CallStep ==
    \/ FirstAttempt
    \/ BeginBackoff
    \/ TimerFire
    \/ SelectCtxDone
    \/ SelectTimer
    \/ BuildFails
    \/ Dispatch
    \/ DoFails
    \/ \E s \in Statuses : ReadFails(s)
    \/ \E s \in Statuses : Respond(s)
    \/ Exhausted
FairSpec == Spec /\ WF_vars(CallStep)

-----------------------------------------------------------------------------
(* The client under policies whose BaseDelay * 2^n leaves the range of
   time.Duration within the attempts of one call *)

LongDelayConfigs ==
    [MaxRetries  : {2, 3},
     BaseDelay   : {20000},
     MaxDelay    : {30000},
     RetryOn     : {{}},
     ShouldRetry : {NoPredicate, Predicate({Resp(503)})}]

LongDelayNext ==
    \/ \E c \in 1 .. Len(clients), cfg \in LongDelayConfigs : WithRetry(c, cfg)
    \/ \E c \in 1 .. Len(clients), marshals \in BOOLEAN, valid \in BOOLEAN :
         Call(c, marshals, valid)
    \/ Cancel
    \/ FirstAttempt
    \/ BeginBackoff
    \/ TimerFire
    \/ SelectCtxDone
    \/ SelectTimer
    \/ BuildFails
    \/ Dispatch
    \/ DoFails
    \/ \E s \in Statuses : ReadFails(s)
    \/ \E s \in Statuses : Respond(s)
    \/ Exhausted
LongDelaySpec == Init /\ [][LongDelayNext]_vars

-----------------------------------------------------------------------------
(* The client while its callers go on using the RetryConfig values they
   passed to WithRetry *)

EditConfigs ==
    [MaxRetries  : {0, 2},
     BaseDelay   : {0, 200},
     MaxDelay    : {0},
     RetryOn     : {{}},
     ShouldRetry : {NoPredicate}]

\* the caller assigns to the fields of the value it passed when it made
\* client k
CallerEdits(k) ==
    /\ clients[k].hasRetry
    /\ clients[k].caller = clients[k].arg
    /\ clients' = [clients EXCEPT ![k].caller =
                      [@ EXCEPT !.MaxRetries = @ + 1, !.BaseDelay = 1,
                                !.MaxDelay = 1]]
    /\ UNCHANGED <<pc, self, reqOK, maxAttempts, attempt, dispatched, history,
                   waits, lastErr, lastBody, ctxDone, woken, decisions,
                   cancelledIn, retBody, retErr>>
    /\ UNCHANGED <<bk, rt, rt2, df, rg, co>>

EditNext ==
    \/ \E c \in 1 .. Len(clients), cfg \in EditConfigs : WithRetry(c, cfg)
    \/ \E k \in 1 .. Len(clients) : CallerEdits(k)
    \/ \E c \in 1 .. Len(clients), marshals \in BOOLEAN, valid \in BOOLEAN :
         Call(c, marshals, valid)
    \/ Cancel
    \/ FirstAttempt
    \/ BeginBackoff
    \/ TimerFire
    \/ SelectCtxDone
    \/ SelectTimer
    \/ BuildFails
    \/ Dispatch
    \/ DoFails
    \/ \E s \in Statuses : ReadFails(s)
    \/ \E s \in Statuses : Respond(s)
    \/ Exhausted
EditSpec == Init /\ [][EditNext]_vars

-----------------------------------------------------------------------------
(* RetryConfig.backoff applied to attempt 0, 1, 2, ... of one policy *)

BackoffConfigs ==
    { applyDefaults([ZeroRetryConfig EXCEPT !.BaseDelay = b, !.MaxDelay = m]) :
        b \in {0, 1, 100, 3000, 20000}, m \in {0, 1, 1000, 30000} }

BackoffInit ==
    /\ ClientInit
    /\ co = CoIdle
    /\ rt = RtIdle /\ rt2 = RtIdle /\ df = DfIdle /\ rg = RgIdle
    /\ bk \in { [BkIdle EXCEPT !.cfg = c] : c \in BackoffConfigs }

\* bk.cur becomes backoff(bk.n); bk.n counts the applications
BackoffApply ==
    /\ bk.n <= MaxBackoffIdx
    /\ \E d \in backoff(bk.cfg, bk.n) :
         bk' = [bk EXCEPT !.prev = bk.cur, !.cur = d, !.n = bk.n + 1]
    /\ UNCHANGED <<clientVars, rt, rt2, df, rg, co>>

BackoffNext == BackoffApply
BackoffSpec == BackoffInit /\ [][BackoffNext]_vars

-----------------------------------------------------------------------------
(* Router: one request through the middleware chain and a route's handler *)

\* the response envelope AppResponse and a body written by the handler
Envelope(code, msg) == [code |-> code, data |-> "null", error |-> msg]
RawBody == [code |-> 0, data |-> "bytes", error |-> ""]

\* errors a handler returns
\* errors a handler returns: text is what Error() of the returned error
\* gives; code, msg and cause are Code, Message and Err of the AppError that
\* errors.As finds in it, when there is one
NoError == [kind |-> "nil", code |-> 0, msg |-> "", cause |-> "", text |-> ""]
AppErrors ==
    {[kind |-> "app", code |-> 404, msg |-> "user not found", cause |-> "",
      text |-> "user not found"],
     [kind |-> "wrapsApp", code |-> 400, msg |-> "Invalid Request",
      cause |-> "unexpected EOF", text |-> "decode body: Invalid Request"]}
PlainErrors ==
    {[kind |-> "plain", code |-> 0, msg |-> "", cause |-> "",
      text |-> "db unreachable"],
     [kind |-> "plain", code |-> 0, msg |-> "", cause |-> "",
      text |-> "disk full"]}
HandlerErrors == {NoError} \cup AppErrors \cup PlainErrors

\* what a handler does with its context before returning
HandlerCalls ==
    {[op |-> "WriteHeader", code |-> 200], [op |-> "WriteHeader", code |-> 201],
     [op |-> "Write", code |-> 0], [op |-> "JSONResponse", code |-> 200]}

RECURSIVE SeqsUpTo(_, _)
SeqsUpTo(S, n) ==
    IF n = 0 THEN {<<>>}
    ELSE LET shorter == SeqsUpTo(S, n - 1)
         IN  shorter \cup { Append(q, x) : q \in shorter, x \in S }

\* a middleware: what it writes to its ResponseWriter before calling next,
\* whether it calls next, and what it writes afterwards
Middlewares ==
    {[pre |-> "none", next |-> TRUE, post |-> "none"],
     [pre |-> "none", next |-> FALSE, post |-> "none"],
     [pre |-> "WriteHeader", next |-> FALSE, post |-> "none"],
     [pre |-> "WriteHeader", next |-> TRUE, post |-> "none"],
     [pre |-> "Write", next |-> TRUE, post |-> "none"],
     [pre |-> "none", next |-> TRUE, post |-> "WriteHeader"]}
\* calls reaching the underlying http.ResponseWriter
SinkWriteHeader(code, via) == [op |-> "WriteHeader", code |-> code, body |-> RawBody, via |-> via]
SinkWrite(b, via) == [op |-> "Write", code |-> 0, body |-> b, via |-> via]

\* faulty variant: no headerWritten guard
rwWriteHeader_unguarded(r, code) ==
    [r EXCEPT !.headerWritten = TRUE,
              !.sink = Append(r.sink, SinkWriteHeader(code, "rw"))]

\* responseWriter.WriteHeader
rwWriteHeader(r, code) ==
    IF ~r.headerWritten
    THEN [r EXCEPT !.headerWritten = TRUE,
                   !.sink = Append(r.sink, SinkWriteHeader(code, "rw"))]
    ELSE r

\* faulty variant: a first Write does not commit the status
rwWrite_noImplicitHeader(r, b) ==
    [r EXCEPT !.sink = Append(r.sink, SinkWrite(b, "rw"))]

\* responseWriter.Write
rwWrite(r, b) ==
    LET r1 == IF ~r.headerWritten THEN rwWriteHeader(r, 200) ELSE r
    IN  [r1 EXCEPT !.sink = Append(r1.sink, SinkWrite(b, "rw"))]

\* Context.JSONResponse on a context whose W is the responseWriter
JSONResponse(r, status, msg) ==
    IF r.headerWritten THEN r
    ELSE rwWrite(rwWriteHeader(r, status), Envelope(status, msg))

\* errors.As(err, &appErr)
IsAppError(e) == e.kind \in {"app", "wrapsApp"}

\* the *AppError errors.As stores in appErr, and its Error()
AsAppError(e) == [Code |-> e.code, Message |-> e.msg, Err |-> e.cause]
AppErrorText(a) == a.Message

\* faulty variants: the text of the returned error is sent, for an AppError
\* and for any other error; the envelope is written without looking at the
\* wrapper
TranslateError_outerError(r, e) ==
    IF e.kind # "nil"
    THEN IF ~r.headerWritten
         THEN IF IsAppError(e)
              THEN JSONResponse(r, AsAppError(e).Code, e.text)
              ELSE JSONResponse(r, 500, "internal server error")
         ELSE r
    ELSE r
TranslateError_leaksText(r, e) ==
    IF e.kind # "nil"
    THEN IF ~r.headerWritten
         THEN IF IsAppError(e)
              THEN JSONResponse(r, AsAppError(e).Code, AppErrorText(AsAppError(e)))
              ELSE JSONResponse(r, 500, e.text)
         ELSE r
    ELSE r
TranslateError_alwaysWrites(r, e) ==
    IF e.kind # "nil"
    THEN LET code == IF IsAppError(e) THEN AsAppError(e).Code ELSE 500
             msg  == IF IsAppError(e) THEN AppErrorText(AsAppError(e))
                     ELSE "internal server error"
         IN  rwWrite(rwWriteHeader(r, code), Envelope(code, msg))
    ELSE r

\* the part of Handle's standard handler that follows handler(ctx)
TranslateError(r, e) ==
    IF e.kind # "nil"
    THEN IF ~r.headerWritten
         THEN IF IsAppError(e)
              THEN JSONResponse(r, AsAppError(e).Code, AppErrorText(AsAppError(e)))
              ELSE JSONResponse(r, 500, "internal server error")
         ELSE r
    ELSE r

-----------------------------------------------------------------------------
(* RetryConfig.applyDefaults applied to one policy as the caller wrote it *)

DefaultsArgs ==
    [MaxRetries  : {-1, 0, 1, 5},
     BaseDelay   : {-1, 0, 1, 700},
     MaxDelay    : {-1, 0, 1, 20000},
     RetryOn     : {{}, {500}, {429, 502, 503, 504}},
     ShouldRetry : {NoPredicate, Predicate({Resp(500)})}]

DefaultsInit ==
    /\ ClientInit
    /\ co = CoIdle
    /\ bk = BkIdle /\ rt = RtIdle /\ rt2 = RtIdle /\ rg = RgIdle
    /\ df \in { [phase |-> "raw", in |-> c, out |-> c] : c \in DefaultsArgs }

\* r.applyDefaults() on the copy held by the client
DefaultsApply ==
    /\ df.phase = "raw"
    /\ df' = [df EXCEPT !.phase = "applied", !.out = applyDefaults(df.in)]
    /\ UNCHANGED <<clientVars, bk, rt, rt2, rg, co>>

DefaultsNext == DefaultsApply
DefaultsSpec == DefaultsInit /\ [][DefaultsNext]_vars

-----------------------------------------------------------------------------
(* pkg/router: one request through the chain built by Handle *)

\* a write made by a middleware on the ResponseWriter it was given
MwWrite(r, op) ==
    IF op = "WriteHeader"
    THEN [r EXCEPT !.sink = Append(r.sink, SinkWriteHeader(401, "mw"))]
    ELSE IF op = "Write"
    THEN [r EXCEPT !.sink = Append(r.sink, SinkWrite(RawBody, "mw"))]
    ELSE r

\* a request entering the chain of a route
NewRequest(ch, cs, e) ==
    [phase |-> "mw", chain |-> ch, calls |-> cs, ret |-> e, pos |-> 1,
     hx |-> 1, invoked |-> 0, entered |-> <<>>, headerWritten |-> FALSE,
     sink |-> <<>>]

RouterInit ==
    /\ ClientInit
    /\ co = CoIdle
    /\ bk = BkIdle /\ rt2 = RtIdle /\ df = DfIdle /\ rg = RgIdle
    /\ rt \in { NewRequest(ch, cs, e) :
                ch \in SeqsUpTo(Middlewares, MaxChain),
                cs \in SeqsUpTo(HandlerCalls, MaxHandlerCalls),
                e \in HandlerErrors }

\* faulty variant: the chain goes on whether or not next was called
MwEnterOf_ignoresNext(r) ==
    LET m == r.chain[r.pos]
        w == [MwWrite(r, m.pre) EXCEPT !.entered = Append(@, r.pos)]
    IN  [w EXCEPT !.pos = r.pos + 1]

\* request r after the middleware at r.pos has run up to its call of next
MwEnterOf(r) ==
    LET m == r.chain[r.pos]
        w == [MwWrite(r, m.pre) EXCEPT !.entered = Append(@, r.pos)]
    IN  IF m.next THEN [w EXCEPT !.pos = r.pos + 1]
        ELSE [w EXCEPT !.phase = "unwind"]

\* request r after the standard handler has made its responseWriter
HandlerBeginOf(r) ==
    [r EXCEPT !.phase = "handler", !.headerWritten = FALSE,
              !.invoked = r.invoked + 1]

\* request r after the next call of the handler on its context
HandlerCallOf(r) ==
    LET c == r.calls[r.hx]
        n == [r EXCEPT !.hx = r.hx + 1]
    IN  IF c.op = "WriteHeader" THEN rwWriteHeader(n, c.code)
        ELSE IF c.op = "Write" THEN rwWrite(n, RawBody)
        ELSE JSONResponse(n, c.code, "")

\* request r after the handler has returned and its error was translated
HandlerReturnOf(r) ==
    [TranslateError(r, r.ret) EXCEPT !.phase = "unwind", !.pos = Len(r.chain)]

\* request r after the middleware at r.pos has finished
MwLeaveOf(r) == [MwWrite(r, r.chain[r.pos].post) EXCEPT !.pos = r.pos - 1]

\* request r after the outermost handler has returned to the server
ServeDoneOf(r) == [r EXCEPT !.phase = "complete"]

\* the middleware at rt.pos runs up to its call of next
MwEnter ==
    /\ rt.phase = "mw"
    /\ rt.pos <= Len(rt.chain)
    /\ rt' = MwEnterOf(rt)
    /\ UNCHANGED <<clientVars, bk, rt2, df, rg, co>>

\* the standard handler starts: a fresh responseWriter around w
HandlerBegin ==
    /\ rt.phase = "mw"
    /\ rt.pos = Len(rt.chain) + 1
    /\ rt' = HandlerBeginOf(rt)
    /\ UNCHANGED <<clientVars, bk, rt2, df, rg, co>>

\* the handler makes its next call on the context
HandlerCall ==
    /\ rt.phase = "handler"
    /\ rt.hx <= Len(rt.calls)
    /\ rt' = HandlerCallOf(rt)
    /\ UNCHANGED <<clientVars, bk, rt2, df, rg, co>>

\* the handler returns and its error is translated
HandlerReturn ==
    /\ rt.phase = "handler"
    /\ rt.hx > Len(rt.calls)
    /\ rt' = HandlerReturnOf(rt)
    /\ UNCHANGED <<clientVars, bk, rt2, df, rg, co>>

\* next has returned to the middleware at rt.pos, which finishes
MwLeave ==
    /\ rt.phase = "unwind"
    /\ rt.pos >= 1
    /\ rt' = MwLeaveOf(rt)
    /\ UNCHANGED <<clientVars, bk, rt2, df, rg, co>>

\* the outermost handler returns to the server
ServeDone ==
    /\ rt.phase = "unwind"
    /\ rt.pos = 0
    /\ rt' = ServeDoneOf(rt)
    /\ UNCHANGED <<clientVars, bk, rt2, df, rg, co>>

RouterNext ==
    \/ MwEnter
    \/ HandlerBegin
    \/ HandlerCall
    \/ HandlerReturn
    \/ MwLeave
    \/ ServeDone
RouterSpec == RouterInit /\ [][RouterNext]_vars

\* the goroutine serving the request keeps running, and the middleware and
\* the handler return
RouterFairSpec == RouterSpec /\ WF_vars(RouterNext)

-----------------------------------------------------------------------------
(* pkg/router: two requests to one route, served by two goroutines *)

\* the handlers write nothing and return errors that are not AppErrors
PairInit ==
    /\ ClientInit
    /\ co = CoIdle
    /\ bk = BkIdle /\ df = DfIdle /\ rg = RgIdle
    /\ \E ch \in SeqsUpTo(Middlewares, MaxChain), e1, e2 \in PlainErrors :
         /\ rt = NewRequest(ch, <<>>, e1)
         /\ rt2 = NewRequest(ch, <<>>, e2)

\* the next step of the goroutine serving request r
StepOf(r) ==
    IF r.phase = "mw"
    THEN IF r.pos <= Len(r.chain) THEN MwEnterOf(r) ELSE HandlerBeginOf(r)
    ELSE IF r.phase = "handler"
    THEN IF r.hx <= Len(r.calls) THEN HandlerCallOf(r) ELSE HandlerReturnOf(r)
    ELSE IF r.pos >= 1 THEN MwLeaveOf(r) ELSE ServeDoneOf(r)

\* the goroutine serving the second request takes its next step
SecondStep ==
    /\ rt2.phase \in {"mw", "handler", "unwind"}
    /\ rt2' = StepOf(rt2)
    /\ UNCHANGED <<clientVars, bk, rt, df, rg, co>>

PairNext ==
    \/ MwEnter
    \/ HandlerBegin
    \/ HandlerReturn
    \/ MwLeave
    \/ ServeDone
    \/ SecondStep
PairSpec == PairInit /\ [][PairNext]_vars

-----------------------------------------------------------------------------
(* pkg/router: two requests served by two goroutines at once, each step
   reading and writing the headerWritten flag of the responseWriter the
   standard handler made *)

\* the requests served together: with and without a middleware, a handler
\* that writes nothing, answers with JSONResponse or writes by hand, and
\* each way of returning
ConcRequests ==
    { NewRequest(ch, cs, e) :
        ch \in {<<>>, <<[pre |-> "none", next |-> TRUE, post |-> "none"]>>},
        cs \in {<<>>, <<[op |-> "JSONResponse", code |-> 200]>>,
                 <<[op |-> "WriteHeader", code |-> 201],
                   [op |-> "Write", code |-> 0]>>},
        e \in {NoError,
                [kind |-> "plain", code |-> 0, msg |-> "", cause |-> "",
                 text |-> "db unreachable"],
                [kind |-> "app", code |-> 404, msg |-> "user not found",
                 cause |-> "", text |-> "user not found"]} }

ConcInit ==
    /\ ClientInit
    /\ co = CoIdle
    /\ bk = BkIdle /\ df = DfIdle /\ rg = RgIdle
    /\ rt \in ConcRequests
    /\ rt2 \in ConcRequests

Req(i) == IF i = 1 THEN rt ELSE rt2

\* faulty variant: one responseWriter, made when the route is registered and
\* captured by the standard handler
FlagOwner_perRoute(i) == 1

\* the request whose handler invocation made the responseWriter that the
\* goroutine of request i writes through: its own
FlagOwner(i) == i

\* request j after the goroutine of request i has taken its next step
AfterStep(i, j) ==
    LET seen == [Req(i) EXCEPT !.headerWritten = Req(FlagOwner(i)).headerWritten]
        nxt  == StepOf(seen)
        base == IF j = i THEN nxt ELSE Req(j)
    IN  [base EXCEPT !.headerWritten = IF j = FlagOwner(i)
                                       THEN nxt.headerWritten
                                       ELSE Req(j).headerWritten]

\* the goroutine serving request i takes its next step
Serve(i) ==
    /\ Req(i).phase \in {"mw", "handler", "unwind"}
    /\ rt' = AfterStep(i, 1)
    /\ rt2' = AfterStep(i, 2)
    /\ UNCHANGED <<clientVars, bk, df, rg, co>>

ConcNext == \E i \in {1, 2} : Serve(i)
ConcSpec == ConcInit /\ [][ConcNext]_vars

-----------------------------------------------------------------------------
(* pkg/cors: the middleware made by New, serving one request after another.
   Durations are in milliseconds; a header is <<>> when absent and <<v>>
   when set to v; a joined list stands for its text, an integer for its
   decimal text. *)

DefaultMaxAge == 86400000

\* an entry of AllowedOrigins as the caller wrote it, and strings.TrimSpace
Entry(pad, s) == [pad |-> pad, s |-> s]
TrimSpace(e) == e.s

NoFunc == [isNil |-> TRUE, accepts |-> {}]
OriginFunc(S) == [isNil |-> FALSE, accepts |-> S]

RequestOrigins == {"", "https://a.example", "http://evil.example"}

CorsConfigs ==
    [AllowedOrigins   : {{}, {Entry(FALSE, "https://a.example")},
                         {Entry(TRUE, "https://a.example")},
                         {Entry(FALSE, "*")}},
     AllowOriginFunc  : {NoFunc, OriginFunc({"https://a.example"})},
     AllowedMethods   : {<<>>, <<"GET", "POST">>},
     AllowedHeaders   : {<<>>},
     ExposedHeaders   : {<<>>, <<"X-Total">>},
     AllowCredentials : BOOLEAN,
     MaxAge           : {-1000, 0, 500, 3600000}]

CorsRequests == [method : {"GET", "POST", "OPTIONS"}, origin : RequestOrigins]

\* New up to its return: the origin map, allowAll and the defaulted config
New(config) ==
    LET allowedMap == IF config.AllowOriginFunc.isNil
                      THEN { TrimSpace(e) : e \in config.AllowedOrigins }
                      ELSE {}
    IN  [allowedMap |-> allowedMap,
         allowAll   |-> "*" \in allowedMap,
         config     |->
            [config EXCEPT
               !.AllowedMethods = IF Len(@) = 0
                                  THEN <<"GET", "POST", "PUT", "DELETE", "OPTIONS">>
                                  ELSE @,
               !.AllowedHeaders = IF Len(@) = 0
                                  THEN <<"Origin", "Content-Type",
                                         "Authorization", "Accept">>
                                  ELSE @,
               !.MaxAge = IF @ = 0 THEN DefaultMaxAge ELSE @]]

\* int(d.Seconds()): whole seconds, truncated toward zero
formatMaxAge(d) == IF d >= 0 THEN d \div 1000 ELSE -((-d) \div 1000)

\* isAllowed as the handler computes it
IsAllowed(mw, origin) ==
    IF ~mw.config.AllowOriginFunc.isNil
    THEN origin \in mw.config.AllowOriginFunc.accepts
    ELSE (mw.allowAll /\ origin # "") \/ origin \in mw.allowedMap

NoHeaders ==
    [Vary |-> <<>>, AllowOrigin |-> <<>>, AllowMethods |-> <<>>,
     AllowHeaders |-> <<>>, AllowCredentials |-> <<>>, MaxAge |-> <<>>,
     ExposeHeaders |-> <<>>]

\* the headers set for an allowed origin, on a preflight and on any request
AllowHeadersFor(mw, origin, h) ==
    [h EXCEPT !.AllowOrigin = <<origin>>,
              !.AllowMethods = <<mw.config.AllowedMethods>>,
              !.AllowHeaders = <<mw.config.AllowedHeaders>>,
              !.AllowCredentials = IF mw.config.AllowCredentials
                                   THEN <<"true">> ELSE @,
              !.ExposeHeaders = IF Len(mw.config.ExposedHeaders) > 0
                                THEN <<mw.config.ExposedHeaders>> ELSE @]

\* faulty variant: a preflight from an origin that is not allowed is
\* passed on
CorsHandler_forwardsForbidden(mw, req) ==
    LET vary    == [NoHeaders EXCEPT !.Vary = <<"Origin">>]
        allowed == IsAllowed(mw, req.origin)
        set     == AllowHeadersFor(mw, req.origin, vary)
    IN  IF req.method = "OPTIONS" /\ allowed
        THEN [headers |-> IF mw.config.MaxAge > 0
                          THEN [set EXCEPT !.MaxAge =
                                           <<formatMaxAge(mw.config.MaxAge)>>]
                          ELSE set,
              status |-> 204, next |-> 0]
        ELSE [headers |-> IF allowed THEN set ELSE vary,
              status |-> 0, next |-> 1]

\* the handler the middleware returns, run on one request: the headers it
\* sets, the status it writes (0: none) and how often it calls next
CorsHandler(mw, req) ==
    LET vary    == [NoHeaders EXCEPT !.Vary = <<"Origin">>]
        allowed == IsAllowed(mw, req.origin)
        set     == AllowHeadersFor(mw, req.origin, vary)
    IN  IF req.method = "OPTIONS"
        THEN IF allowed
             THEN [headers |-> IF mw.config.MaxAge > 0
                               THEN [set EXCEPT !.MaxAge =
                                                <<formatMaxAge(mw.config.MaxAge)>>]
                               ELSE set,
                   status |-> 204, next |-> 0]
             ELSE [headers |-> vary, status |-> 403, next |-> 0]
        ELSE [headers |-> IF allowed THEN set ELSE vary,
              status |-> 0, next |-> 1]

CorsInit ==
    /\ ClientInit
    /\ bk = BkIdle /\ rt = RtIdle /\ rt2 = RtIdle /\ df = DfIdle /\ rg = RgIdle
    /\ co \in { [phase |-> "ready", mw |-> New(c),
                  req |-> [method |-> "", origin |-> ""],
                  resp |-> [headers |-> NoHeaders, status |-> 0, next |-> 0]] :
                c \in CorsConfigs }

\* the wrapped handler serves a request
CorsServe(req) ==
    /\ co.phase \in {"ready", "served"}
    /\ co' = [co EXCEPT !.phase = "served", !.req = req,
                        !.resp = CorsHandler(co.mw, req)]
    /\ UNCHANGED <<clientVars, bk, rt, rt2, df, rg>>

CorsNext == \E req \in CorsRequests : CorsServe(req)
CorsSpec == CorsInit /\ [][CorsNext]_vars

-----------------------------------------------------------------------------
(* pkg/router: NewRouter, Group, Use, Handle, the route log and the mux *)

\* A string is the sequence of the path segments it is made of, "" being
\* <<>>; + is \o.  An http.Handler built by Handle is the sequence of the
\* closures it is nested of, outermost first: mw(h) is <<mw>> \o h.
GroupPaths == {<<"/api">>}
NestPaths == {<<"/api">>, <<"/v1">>}
RouteArgs == { [method |-> "GET", path |-> <<>>],
               [method |-> "POST", path |-> <<"/users">>] }

\* path is the argument of the Group call that made the router
NewRouter ==
    [prefix |-> <<>>, middlewares |-> <<>>, parent |-> 0, born |-> 0,
     path |-> <<>>]
\* the last request: the registration it matched (0 when none), what was
\* asked, which middleware did not call next, and what ran
NoRequest ==
    [reg |-> 0, req |-> [method |-> "", path |-> <<>>], via |-> "none",
     stop |-> {}, stopOuter |-> {}, trace |-> <<>>]

\* Group, Use and Handle calls made so far
OpsDone == (Len(rg.routers) - 1) + Len(rg.uses) + Len(rg.regs)

RegistryInit ==
    /\ ClientInit
    /\ co = CoIdle
    /\ bk = BkIdle /\ rt = RtIdle /\ rt2 = RtIdle /\ df = DfIdle
    /\ rg = [phase |-> "on", routers |-> <<NewRouter>>, uses |-> <<>>,
             routes |-> <<>>, mux |-> {}, regs |-> <<>>, wrapper |-> <<>>,
             served |-> NoRequest]

\* the prefix of the child made by Group(path) on a router of prefix p; one
\* faulty variant, in which the prefix of the parent is lost
GroupPrefix_pathOnly(p, path) == path
GroupPrefix(p, path) == p \o path

\* r.Group(path): the child shares mux and route log, and starts from a copy
\* of the middleware list of r.  born is the number of Use calls made before;
\* served describes the last request since the last change of the routers.
Group(r, path) ==
    /\ OpsDone < MaxOps
    /\ rg' = [rg EXCEPT
                !.routers = Append(@, [prefix      |-> GroupPrefix(rg.routers[r].prefix, path),
                                       middlewares |-> rg.routers[r].middlewares,
                                       parent      |-> r,
                                       born        |-> Len(rg.uses),
                                       path        |-> path]),
                !.served = NoRequest]
    /\ UNCHANGED <<clientVars, bk, rt, rt2, df, co>>

\* the routers after r.Use(m); one faulty variant, in which the list is
\* shared by every router of the tree
UseOn_sharedList(routers, r, m) ==
    [i \in 1 .. Len(routers) |->
        [routers[i] EXCEPT !.middlewares = Append(@, m)]]
UseOn(routers, r, m) ==
    [routers EXCEPT ![r].middlewares = Append(@, m)]

\* r.Use(mw): the middleware of the k-th Use call is named k
Use(r) ==
    /\ OpsDone < MaxOps
    /\ rg' = [rg EXCEPT
                !.routers = UseOn(@, r, Len(rg.uses) + 1),
                !.uses = Append(@, [on |-> r]),
                !.served = NoRequest]
    /\ UNCHANGED <<clientVars, bk, rt, rt2, df, co>>

\* the loop of Handle: finalHandler = middlewares[i](finalHandler) for i
\* from the last index down to the first; one faulty variant
RECURSIVE WrapChain_ascending(_, _, _)
RECURSIVE WrapChain(_, _, _)
WrapChain_ascending(mws, i, h) ==
    IF i < 1 THEN h
    ELSE WrapChain_ascending(mws, i - 1,
             <<[kind |-> "mw", id |-> mws[Len(mws) + 1 - i]]>> \o h)
WrapChain(mws, i, h) ==
    IF i < 1 THEN h
    ELSE WrapChain(mws, i - 1, <<[kind |-> "mw", id |-> mws[i]]>> \o h)

\* one faulty variant: the empty path is logged as it is
DisplayPath_asIs(full) == full
DisplayPath(full) == IF full = <<>> THEN <<"/">> ELSE full

\* http.ServeMux.Handle panics on a pattern without a path and on a
\* pattern already registered
MuxAccepts(mux, pattern) ==
    /\ pattern.path # <<>>
    /\ \A e \in mux : e.pattern # pattern

\* r.Handle(method, path, handler): the handler of the j-th call is named j.
\* The route log is appended to before the mux is asked to register.
Handle(r, method, path) ==
    /\ OpsDone < MaxOps
    /\ LET router  == rg.routers[r]
           j       == Len(rg.regs) + 1
           final   == WrapChain(router.middlewares, Len(router.middlewares),
                                <<[kind |-> "std", id |-> j]>>)
           full    == router.prefix \o path
           pattern == [method |-> method, path |-> full]
           ok      == MuxAccepts(rg.mux, pattern)
       IN  rg' = [rg EXCEPT
                    !.routes = Append(@, [Method |-> method,
                                          Path   |-> DisplayPath(full)]),
                    !.mux = IF ok THEN @ \cup {[pattern |-> pattern,
                                                handler |-> final]}
                            ELSE @,
                    !.regs = Append(@, [by |-> r, at |-> Len(rg.uses),
                                        pattern |-> pattern, arg |-> path,
                                        scope |-> router.middlewares,
                                        ok |-> ok]),
                    !.served = NoRequest]
    /\ UNCHANGED <<clientVars, bk, rt, rt2, df, co>>

\* what runs when h.ServeHTTP is called: a middleware runs, calls next
\* unless it is one of stop, and finishes after next has returned
RECURSIVE Run(_, _)
Run(h, stop) ==
    IF Head(h).kind = "std" THEN <<[ev |-> "handler", id |-> Head(h).id]>>
    ELSE <<[ev |-> "enter", id |-> Head(h).id]>>
         \o (IF Head(h).id \in stop THEN <<>> ELSE Run(Tail(h), stop))
         \o <<[ev |-> "leave", id |-> Head(h).id]>>

\* faulty variant: the chain is built from the list the registering
\* router has when the request arrives
HandlerAt_rebuilt(mux, pattern) ==
    LET j == CHOOSE j \in 1 .. Len(rg.regs) :
                rg.regs[j].ok /\ rg.regs[j].pattern = pattern
        l == rg.routers[rg.regs[j].by].middlewares
    IN  WrapChain(l, Len(l), <<[kind |-> "std", id |-> j]>>)

\* the handler the mux holds for a pattern: the one Handle gave it
HandlerAt(mux, pattern) == (CHOOSE e \in mux : e.pattern = pattern).handler

\* r.ServeHTTP for a request matching the pattern of the j-th registration
ServeHTTP(j, stop) ==
    /\ rg.regs[j].ok
    /\ LET pattern == rg.regs[j].pattern
       IN  rg' = [rg EXCEPT !.served = [reg |-> j, req |-> pattern,
                                        via |-> "router", stop |-> stop,
                                        stopOuter |-> {},
                                        trace |-> Run(HandlerAt(rg.mux, pattern),
                                                      stop)]]
    /\ UNCHANGED <<clientVars, bk, rt, rt2, df, co>>

RegistryNext ==
    \/ \E r \in 1 .. Len(rg.routers), path \in GroupPaths : Group(r, path)
    \/ \E r \in 1 .. Len(rg.routers) : Use(r)
    \/ \E r \in 1 .. Len(rg.routers), a \in RouteArgs :
         Handle(r, a.method, a.path)
    \/ \E j \in 1 .. Len(rg.regs) :
         \E stop \in SUBSET { rg.regs[j].scope[i] : i \in DOMAIN rg.regs[j].scope } :
            ServeHTTP(j, stop)
RegistrySpec == RegistryInit /\ [][RegistryNext]_vars

-----------------------------------------------------------------------------
(* pkg/router: WithMiddleware, and requests that match no route *)

WrapRouteArgs == { [method |-> "GET", path |-> <<"/users">>],
                   [method |-> "POST", path |-> <<"/users">>] }
Requests ==
    { [method |-> "POST", path |-> <<"/users">>],
      [method |-> "OPTIONS", path |-> <<"/users">>],
      [method |-> "GET", path |-> <<"/nope">>] }

\* the loop of WithMiddleware: handler = middlewares[i](handler) for i from
\* the last index down to the first, the i-th argument being named i; one
\* faulty variant
RECURSIVE WrapOuter_ascending(_, _, _)
RECURSIVE WrapOuter(_, _, _)
WrapOuter_ascending(n, i, h) ==
    IF i < 1 THEN h
    ELSE WrapOuter_ascending(n, i - 1, <<[kind |-> "outer", id |-> n + 1 - i]>> \o h)
WrapOuter(n, i, h) ==
    IF i < 1 THEN h
    ELSE WrapOuter(n, i - 1, <<[kind |-> "outer", id |-> i]>> \o h)

\* r.WithMiddleware(o1, ..., on): rg.wrapper is the handler it returned
WithMiddleware(r, n) ==
    /\ rg' = [rg EXCEPT
                !.wrapper = WrapOuter(n, n, <<[kind |-> "router", id |-> r]>>),
                !.served = NoRequest]
    /\ UNCHANGED <<clientVars, bk, rt, rt2, df, co>>

\* the registration whose pattern the mux matches req with, 0 when none
Matched(req) ==
    IF \E j \in 1 .. Len(rg.regs) : rg.regs[j].ok /\ rg.regs[j].pattern = req
    THEN CHOOSE j \in 1 .. Len(rg.regs) :
            rg.regs[j].ok /\ rg.regs[j].pattern = req
    ELSE 0

\* faulty variant: the middleware of the router run before the mux is asked
MuxServe_middlewareFirst(mux, req, stop) ==
    IF \E e \in mux : e.pattern = req
    THEN Run(HandlerAt(mux, req), stop)
    ELSE [i \in 1 .. Len(rg.routers[1].middlewares) |->
            [ev |-> "enter", id |-> rg.routers[1].middlewares[i]]]
         \o <<[ev |-> "nomatch", id |-> 0]>>

\* r.mux.ServeHTTP: the handler registered under the pattern req matches
\* runs; the mux answers by itself (404, 405) when there is none
MuxServe(mux, req, stop) ==
    IF \E e \in mux : e.pattern = req
    THEN Run(HandlerAt(mux, req), stop)
    ELSE <<[ev |-> "nomatch", id |-> 0]>>

\* what runs when ServeHTTP of a handler made by WithMiddleware is called
RECURSIVE RunOuter(_, _, _, _)
RunOuter(h, req, stopOuter, stop) ==
    IF Head(h).kind = "router" THEN MuxServe(rg.mux, req, stop)
    ELSE <<[ev |-> "outer", id |-> Head(h).id]>>
         \o (IF Head(h).id \in stopOuter THEN <<>>
             ELSE RunOuter(Tail(h), req, stopOuter, stop))
         \o <<[ev |-> "outerDone", id |-> Head(h).id]>>

\* r.ServeHTTP for a request that matches no registered pattern
ServeNoMatch(req) ==
    /\ Matched(req) = 0
    /\ rg' = [rg EXCEPT !.served = [reg |-> 0, req |-> req, via |-> "router",
                                    stop |-> {}, stopOuter |-> {},
                                    trace |-> MuxServe(rg.mux, req, {})]]
    /\ UNCHANGED <<clientVars, bk, rt, rt2, df, co>>

\* ServeHTTP of the handler made by WithMiddleware, for any request
ServeWrapped(req, stopOuter, stop) ==
    /\ rg.wrapper # <<>>
    /\ rg' = [rg EXCEPT !.served = [reg |-> Matched(req), req |-> req,
                                    via |-> "wrapper", stop |-> stop,
                                    stopOuter |-> stopOuter,
                                    trace |-> RunOuter(rg.wrapper, req,
                                                       stopOuter, stop)]]
    /\ UNCHANGED <<clientVars, bk, rt, rt2, df, co>>

\* at most one middleware of ids that does not call next
OneOf(ids) == {{}} \cup { {k} : k \in ids }

\* the middleware in scope of the registration req matches
ScopeOf(req) ==
    IF Matched(req) = 0 THEN {}
    ELSE { rg.regs[Matched(req)].scope[i] :
             i \in DOMAIN rg.regs[Matched(req)].scope }

WrapNext ==
    \/ Use(1)
    \/ \E a \in WrapRouteArgs : Handle(1, a.method, a.path)
    \/ \E n \in 0 .. MaxOuter : WithMiddleware(1, n)
    \/ \E j \in 1 .. Len(rg.regs) :
         \E stop \in OneOf(ScopeOf(rg.regs[j].pattern)) : ServeHTTP(j, stop)
    \/ \E req \in Requests : ServeNoMatch(req)
    \/ \E req \in Requests :
         \E stopOuter \in OneOf(1 .. (Len(rg.wrapper) - 1)),
            stop \in OneOf(ScopeOf(req)) :
            ServeWrapped(req, stopOuter, stop)
WrapSpec == RegistryInit /\ [][WrapNext]_vars

\* groups nested under different paths, and routes registered on them
NestNext ==
    \/ \E r \in 1 .. Len(rg.routers), path \in NestPaths : Group(r, path)
    \/ \E r \in 1 .. Len(rg.routers), a \in RouteArgs :
         Handle(r, a.method, a.path)
    \/ \E j \in 1 .. Len(rg.regs) : ServeHTTP(j, {})
NestSpec == RegistryInit /\ [][NestNext]_vars

-----------------------------------------------------------------------------
(* Properties of RequestBytes *)

Called == pc # "idle"
Receiver == clients[self]

\* the attempt failed: a transport error, or a response of status >= 400
Failed(o) == o.err \/ (o.readOK /\ o.status >= 400)
Succeeded(o) == ~o.err /\ o.readOK /\ o.status < 400

\* the error RequestBytes records for the i-th Do call
ErrorOfAttempt(i) ==
    IF history[i].err THEN ExecuteErr(i) ELSE StatusErr(i, history[i].status)

\* indices of the Do calls that received a response with a failure status
Responses == { i \in 1 .. Len(history) : ~history[i].err /\ history[i].readOK }

MostRecentBody ==
    IF Responses = {} THEN NilBody
    ELSE LET i == CHOOSE j \in Responses : \A k \in Responses : k <= j
         IN  BodyOf(i, history[i].status)

\* C2 as stated: with a retry policy, for every configured maxRetries >= 0
\* at most 1 + maxRetries attempts are dispatched.
C2_AsStated ==
    (Called /\ Receiver.hasRetry /\ Receiver.arg.MaxRetries >= 0)
        => dispatched <= 1 + Receiver.arg.MaxRetries

\* C2 (amended): with a retry policy, let m be the configured maxRetries
\* when it is positive and 3 otherwise.  At most 1 + m attempts are
\* dispatched, and exactly 1 + m when attempts were made, every one of them
\* failed retryably and the context was never cancelled.
C2_AttemptBudget ==
    (Called /\ Receiver.hasRetry) =>
        LET m == IF Receiver.arg.MaxRetries > 0 THEN Receiver.arg.MaxRetries
                 ELSE 3
        IN  /\ dispatched <= 1 + m
            /\ ( /\ pc = "done"
                 /\ ~ctxDone
                 /\ history # <<>>
                 /\ \A i \in 1 .. Len(history) :
                       Failed(history[i]) /\ decisions[i] = "continue" )
               => dispatched = 1 + m

C2_Witness ==
    /\ pc = "done"
    /\ Receiver.hasRetry
    /\ Receiver.arg.MaxRetries = 0
    /\ ~ctxDone
    /\ dispatched = 4
    /\ \A i \in 1 .. Len(history) : decisions[i] = "continue"

\* C3: a context that becomes done while the call waits in a backoff sleep
\* (before the timer fires) makes the call return the context's error, not
\* the exhaustion error, with no further attempt dispatched; when the timer
\* fires first the call goes on to dispatch the next attempt.
C3_CancelDuringBackoff ==
    /\ [][(pc = "backoff" /\ woken = "none" /\ ~ctxDone /\ ctxDone')
            => woken' = "ctx"]_vars
    /\ [][woken = "ctx" => dispatched' = dispatched]_vars
    /\ []((pc = "done" /\ woken = "ctx")
            => (retErr = CtxErr /\ retBody = lastBody
                /\ dispatched = Len(waits)))
    /\ [][(pc = "backoff" /\ woken = "timer") => pc' \in {"backoff", "build"}]_vars
    /\ [][(pc = "build" /\ attempt > 0)
            => (pc' = "build" \/ dispatched' = dispatched + 1)]_vars

C3_Witness ==
    /\ pc = "done"
    /\ cancelledIn = "backoff"
    /\ woken = "ctx"
    /\ retErr = CtxErr
    /\ Len(history) < maxAttempts

\* C4: when all 1 + maxRetries attempts fail retryably the call returns an
\* error that wraps the error of the last attempt and carries the total
\* attempt count, together with the body of the most recent response
\* received (nil when no attempt received one); the exhaustion error is
\* returned in no other case.
C4_Exhaustion ==
    /\ ( /\ pc = "done"
         /\ Receiver.hasRetry
         /\ Len(history) = 1 + Receiver.retryConfig.MaxRetries
         /\ \A i \in 1 .. Len(history) : decisions[i] = "continue" )
       => retErr.kind = "exhausted"
    /\ (pc = "done" /\ retErr.kind = "exhausted")
       => /\ Receiver.hasRetry
          /\ dispatched = 1 + Receiver.retryConfig.MaxRetries
          /\ Len(history) = dispatched
          /\ \A i \in 1 .. Len(history) : Failed(history[i])
          /\ retErr.attempts = dispatched
          /\ retErr.wraps = ErrorOfAttempt(dispatched)
          /\ retBody = MostRecentBody

C4_Witness ==
    /\ pc = "done"
    /\ Receiver.arg.MaxRetries = 2
    /\ history = <<Resp(503), Resp(503), Resp(503)>>
    /\ dispatched = 3
    /\ retErr = ExhaustedErr(3, StatusErr(3, 503))
    /\ retBody = BodyOf(3, 503)

\* C5: an attempt that receives a response of status < 400 ends the call
\* at once with that response's body and a nil error, whatever the policy:
\* it is the last attempt dispatched.
C5_SuccessShortCircuits ==
    \A i \in 1 .. Len(history) :
        Succeeded(history[i]) =>
            /\ i = Len(history)
            /\ pc = "done"
            /\ dispatched = i
            /\ retErr = NilErr
            /\ retBody = BodyOf(i, history[i].status)

C5_Witness ==
    /\ pc = "done"
    /\ history = <<Resp(503), Resp(503), Resp(200)>>
    /\ dispatched = 3
    /\ retErr = NilErr

\* C6: with a set-based policy a response of status >= 400 that is not in
\* the retryable-status set ends the call on that attempt, returning the
\* response body and the plain status error.
C6_NonRetryableStatus ==
    (Called /\ Receiver.hasRetry /\ Receiver.retryConfig.ShouldRetry.isNil) =>
        \A i \in 1 .. Len(history) :
            ( /\ ~history[i].err /\ history[i].readOK
              /\ history[i].status >= 400
              /\ history[i].status \notin Receiver.retryConfig.RetryOn )
            => /\ i = Len(history)
               /\ pc = "done"
               /\ dispatched = i
               /\ retBody = BodyOf(i, history[i].status)
               /\ retErr = StatusErr(i, history[i].status)

C6_Witness ==
    /\ pc = "done"
    /\ Receiver.hasRetry
    /\ Receiver.arg.RetryOn = {}
    /\ Receiver.arg.ShouldRetry.isNil
    /\ history = <<Resp(400)>>
    /\ dispatched = 1

\* C7: without a retry policy exactly one attempt is dispatched whatever
\* its outcome: a transport error gives an error and no body, a status
\* >= 400 an error and the response body, a status < 400 the body and no
\* error.
C7_NoPolicySingleAttempt ==
    (Called /\ ~Receiver.hasRetry) =>
        /\ dispatched <= 1
        /\ (pc = "done" /\ history # <<>>) =>
              /\ dispatched = 1
              /\ Len(history) = 1
              /\ history[1].err =>
                    (retBody = NilBody /\ retErr = ExecuteErr(1))
              /\ (Failed(history[1]) /\ ~history[1].err) =>
                    (retBody = BodyOf(1, history[1].status)
                     /\ retErr = StatusErr(1, history[1].status))
              /\ Succeeded(history[1]) =>
                    (retBody = BodyOf(1, history[1].status) /\ retErr = NilErr)

C7_Witness ==
    /\ pc = "done"
    /\ ~Receiver.hasRetry
    /\ history = <<Resp(503)>>
    /\ retBody = BodyOf(1, 503)
    /\ retErr = StatusErr(1, 503)

\* C8: with a custom ShouldRetry predicate, after every failed attempt the
\* call retries exactly when the predicate returns true for that attempt's
\* (response, error); the retryable-status set plays no part and a
\* transport error is retried only if the predicate accepts it.
C8_PredicateDecides ==
    (Called /\ Receiver.hasRetry /\ ~Receiver.retryConfig.ShouldRetry.isNil) =>
        \A i \in 1 .. Len(history) :
            Failed(history[i]) =>
                (decisions[i] = "continue"
                    <=> history[i] \in Receiver.retryConfig.ShouldRetry.accepts)

C8_Witness ==
    /\ Called
    /\ Receiver.hasRetry
    /\ Receiver.retryConfig.ShouldRetry = Predicate({ErrOutcome, Resp(409)})
    /\ Receiver.retryConfig.RetryOn = {399, 503}
    /\ history = <<ErrOutcome, Resp(409), Resp(503)>>
    /\ decisions = <<"continue", "continue", "return">>

\* C9 as stated: with a set-based policy every attempt that fails with a
\* transport error, and every attempt whose status is in the retryable
\* set, is followed by another attempt while attempts remain.
C9_AsStated ==
    (pc = "done" /\ Receiver.hasRetry /\ Receiver.retryConfig.ShouldRetry.isNil) =>
        \A i \in 1 .. Len(history) :
            ( /\ history[i].readOK
              /\ history[i].err \/ history[i].status \in Receiver.retryConfig.RetryOn
              /\ i < maxAttempts )
            => Len(history) > i

\* the state part of C9: the retryable set in force, the decision taken
\* after each retryable failure, and how a call can end while attempts remain
C9_Continues ==
    (Called /\ Receiver.hasRetry /\ Receiver.retryConfig.ShouldRetry.isNil) =>
        /\ (Receiver.arg.RetryOn = {})
              => Receiver.retryConfig.RetryOn = {429, 502, 503, 504}
        /\ (Receiver.arg.RetryOn # {})
              => Receiver.retryConfig.RetryOn = Receiver.arg.RetryOn
        /\ \A i \in 1 .. Len(history) :
              ( \/ history[i].err
                \/ /\ history[i].readOK
                   /\ history[i].status >= 400
                   /\ history[i].status \in Receiver.retryConfig.RetryOn )
              => /\ decisions[i] = "continue"
                 /\ (pc = "done" /\ i = Len(history) /\ i < maxAttempts)
                       => (retErr = CtxErr /\ ctxDone)

\* C9 (amended): with a set-based policy every attempt that fails with a
\* transport error, or with a response of status >= 400 in the retryable
\* set, makes the call continue, and while attempts remain it is followed
\* by another attempt unless the call returns the context's error from the
\* backoff wait.  The set is {429, 502, 503, 504} when neither a set nor a
\* predicate is configured.
C9_SetBasedRetry ==
    /\ []C9_Continues
    /\ \A i \in 1 .. (MaxRetriesArg + DefaultMaxRetries) :
          ( /\ pc = "loop" /\ Receiver.hasRetry
            /\ Receiver.retryConfig.ShouldRetry.isNil
            /\ Len(history) = i /\ i < maxAttempts )
          ~> (dispatched > i \/ (pc = "done" /\ retErr = CtxErr))

C9_Witness ==
    /\ pc = "inflight"
    /\ Receiver.hasRetry
    /\ Receiver.arg.RetryOn = {}
    /\ Receiver.arg.ShouldRetry.isNil
    /\ history = <<ErrOutcome, Resp(503)>>
    /\ dispatched = 3

\* the attempt loop of a call in progress is within its budget
LoopBounded ==
    (Called /\ pc # "done") =>
        /\ maxAttempts = IF Receiver.hasRetry
                         THEN 1 + Receiver.retryConfig.MaxRetries ELSE 1
        /\ attempt <= maxAttempts
        /\ dispatched <= maxAttempts
        /\ dispatched \in {attempt, attempt + 1}
        /\ (pc = "backoff") => (woken = "none" => ~ctxDone)

\* C24: every RequestBytes call eventually returns, assuming each network
\* call returns and each backoff timer or the context's cancellation
\* eventually fires: the attempt loop is bounded by 1 + maxRetries and no
\* step waits on anything other than a network call or a backoff wait that
\* also observes cancellation.
C24_Returns == [](LoopBounded) /\ (Called ~> (pc = "done"))

\* a call that used its whole budget, waiting before each retry, has returned
C24_Witness ==
    /\ pc = "done"
    /\ Receiver.hasRetry
    /\ maxAttempts >= 3
    /\ dispatched = maxAttempts
    /\ Len(waits) = maxAttempts - 1
    /\ ~ctxDone

\* the context was cancelled while an attempt was in flight, and no attempt
\* of the call has ended otherwise than with a transport error: so the
\* attempt that was in flight has, unless it is in flight still
FailedAfterCancel ==
    /\ Called /\ Receiver.hasRetry
    /\ cancelledIn = "inflight"
    /\ \A j \in 1 .. Len(history) : history[j] = ErrOutcome

\* C28: with a retry policy, once the context has been cancelled while an
\* attempt is in flight and that attempt fails with a transport error,
\* RequestBytes dispatches no further attempt: it returns at the next
\* backoff wait with the cancellation error, or returns the failure directly
\* when no attempts remain or the predicate declines to retry.  A dispatch
\* made with the context already done is the one the transport refuses.
C28_NoDispatchAfterCancel ==
    FailedAfterCancel =>
        /\ pc # "refused"
        /\ (pc = "done") =>
              /\ Len(history) = dispatched
              /\ \/ /\ retErr = CtxErr
                    /\ Len(waits) = dispatched
                    /\ dispatched < maxAttempts
                    /\ isRetryable(Receiver.retryConfig, ErrOutcome)
                 \/ /\ retErr = ExhaustedErr(maxAttempts, ExecuteErr(dispatched))
                    /\ dispatched = maxAttempts
                    /\ isRetryable(Receiver.retryConfig, ErrOutcome)
                 \/ /\ retErr = ExecuteErr(dispatched)
                    /\ ~isRetryable(Receiver.retryConfig, ErrOutcome)

\* C29: a failure that occurs before or after the network dispatch is never
\* retried, whatever the retry policy: if the body cannot be serialized to
\* JSON the call returns an error with zero attempts dispatched, and if
\* request construction or reading the response body fails the call returns
\* that error immediately with a nil body and no further attempt.
C29_LocalFailuresFinal ==
    /\ (pc = "done" /\ retErr = MarshalErr) =>
          /\ dispatched = 0 /\ history = <<>> /\ waits = <<>>
          /\ retBody = NilBody
    /\ (Called /\ retErr # MarshalErr /\ ~reqOK) =>
          /\ dispatched = 0 /\ attempt = 0 /\ waits = <<>>
          /\ pc \in {"loop", "build", "done"}
          /\ (pc = "done") => (retErr = CreateErr /\ retBody = NilBody)
    /\ \A i \in 1 .. Len(history) :
          ~history[i].readOK =>
             /\ i = Len(history)
             /\ dispatched = i
             /\ pc = "done"
             /\ retErr = ReadErr
             /\ retBody = NilBody
    /\ (pc = "done" /\ retErr \in {CreateErr, ReadErr}) => retBody = NilBody

\* under a policy that retries 503, the body of a second 503 could not be
\* read: the call has returned, without the body of the first
C29_Witness ==
    /\ pc = "done"
    /\ Receiver.hasRetry
    /\ maxAttempts > 2
    /\ history = <<Resp(503), Unread(503)>>
    /\ isRetryable(Receiver.retryConfig, Resp(503))
    /\ lastBody # NilBody
    /\ retErr = ReadErr
    /\ retBody = NilBody

\* the clients as WithRetry left them, and the calls made on them
ClientsAsMade ==
    /\ clients[1] = NewClient
    /\ \A k \in 2 .. Len(clients) :
          /\ clients[k].hasRetry
          /\ clients[k].retryConfig = applyDefaults(clients[k].arg)
    /\ (Called /\ retErr # MarshalErr) =>
          /\ maxAttempts = IF self = 1 THEN 1
                           ELSE 1 + applyDefaults(Receiver.arg).MaxRetries
          /\ dispatched <= maxAttempts
          /\ \A i \in 1 .. Len(waits) :
                waits[i] \in backoff(applyDefaults(Receiver.arg), i - 1)
          /\ (self = 1 /\ pc = "done" /\ retErr # CreateErr) => dispatched = 1

\* a step adds a client at the end, if anything, and leaves the others and
\* the values they were made with as they are
ClientsKept ==
    \A k \in 1 .. Len(clients) :
        /\ k <= Len(clients')
        /\ clients'[k].hasRetry = clients[k].hasRetry
        /\ clients'[k].retryConfig = clients[k].retryConfig
        /\ clients'[k].arg = clients[k].arg

C11_WaitSchedule ==
    Called =>
        /\ (dispatched = 0) => (waits = <<>>)
        /\ (dispatched >= 1) => (Len(waits) \in {dispatched - 1, dispatched})
        /\ (pc \in {"inflight", "refused"}) => (Len(waits) = dispatched - 1)
        /\ \A k \in 1 .. Len(waits) :
              LET r == Receiver.retryConfig
                  f == r.BaseDelay * Pow2(k - 1)
              IN  /\ waits[k] \in backoff(r, k - 1)
                  /\ (f <= MaxDur) =>
                        (waits[k] = IF f > r.MaxDelay THEN r.MaxDelay ELSE f)

C11_Witness ==
    /\ Called
    /\ waits = <<200, 300, 300>>
    /\ dispatched = 4
    /\ pc = "inflight"

-----------------------------------------------------------------------------
(* Properties of RetryConfig.backoff *)

Min(a, b) == IF a < b THEN a ELSE b

\* C10: for every attempt index n >= 0, backoff(n) = min(baseDelay * 2^n,
\* maxDelay); the result is never negative, never above maxDelay and
\* non-decreasing in n.
C10_BackoffFormula ==
    (bk.n >= 1) =>
        /\ bk.cur = Min(bk.cfg.BaseDelay * Pow2(bk.n - 1), bk.cfg.MaxDelay)
        /\ bk.cur >= 0
        /\ bk.cur <= bk.cfg.MaxDelay
        /\ (bk.n >= 2) => bk.prev <= bk.cur

-----------------------------------------------------------------------------
(* Properties of RetryConfig.applyDefaults *)

\* C12: applyDefaults replaces every non-positive MaxRetries, BaseDelay and
\* MaxDelay by 3, 500ms and 10s, leaves positive values unchanged, and
\* installs the default retryable set {429, 502, 503, 504} only when RetryOn
\* is empty and no ShouldRetry predicate is set.
C12_Defaults ==
    (df.phase = "applied") =>
        /\ df.out.MaxRetries = IF df.in.MaxRetries <= 0 THEN 3
                               ELSE df.in.MaxRetries
        /\ df.out.BaseDelay = IF df.in.BaseDelay <= 0 THEN 500
                              ELSE df.in.BaseDelay
        /\ df.out.MaxDelay = IF df.in.MaxDelay <= 0 THEN 10000
                             ELSE df.in.MaxDelay
        /\ df.out.RetryOn = IF df.in.RetryOn = {} /\ df.in.ShouldRetry.isNil
                            THEN {429, 502, 503, 504} ELSE df.in.RetryOn
        /\ df.out.ShouldRetry = df.in.ShouldRetry

C12_Witness ==
    /\ df.phase = "applied"
    /\ df.in.MaxRetries <= 0 /\ df.in.BaseDelay > 0 /\ df.in.MaxDelay <= 0
    /\ df.in.RetryOn = {} /\ ~df.in.ShouldRetry.isNil
    /\ df.out.RetryOn = {}

-----------------------------------------------------------------------------
(* Properties of Group, Use and Handle *)

Registering == rg.phase = "on"

\* router a is a proper ancestor of router b
RECURSIVE IsAncestor(_, _)
IsAncestor(a, b) ==
    LET p == rg.routers[b].parent
    IN  p # 0 /\ (p = a \/ IsAncestor(a, p))

\* the child of a on the way down to its descendant b
RECURSIVE ChildToward(_, _)
ChildToward(a, b) ==
    IF rg.routers[b].parent = a THEN b
    ELSE ChildToward(a, rg.routers[b].parent)

\* the middleware of the k-th Use call is in scope of the j-th registration:
\* it was added, before the registration, to the registering router, or to
\* an ancestor of it before the group leading to that router was branched
InScope(k, j) ==
    LET on == rg.uses[k].on
        by == rg.regs[j].by
    IN  /\ k <= rg.regs[j].at
        /\ \/ on = by
           \/ IsAncestor(on, by) /\ k <= rg.routers[ChildToward(on, by)].born

\* the middleware a handler held by the mux is nested of
Applied(h) == { h[i].id : i \in { n \in DOMAIN h : h[n].kind = "mw" } }

\* C13: for a route registered while middleware m1, ..., mn (in Use order,
\* inherited ones first) are in scope, a request to that route runs m1
\* first, then m2, ..., then mn, then the handler, provided each middleware
\* calls next; each middleware wraps all later ones and the handler.
C13_MiddlewareOrder ==
    (Registering /\ rg.served.reg # 0 /\ rg.served.stop = {}) =>
        LET j  == rg.served.reg
            sc == rg.regs[j].scope
            n  == Len(sc)
        IN  /\ { sc[i] : i \in 1 .. n }
                 = { k \in 1 .. Len(rg.uses) : InScope(k, j) }
            /\ \A a, b \in 1 .. n :
                 (a < b) =>
                    /\ sc[a] < sc[b]
                    /\ (rg.uses[sc[b]].on # rg.regs[j].by)
                          => (rg.uses[sc[a]].on # rg.regs[j].by)
            /\ rg.served.trace =
                 [i \in 1 .. (2 * n + 1) |->
                    IF i <= n THEN [ev |-> "enter", id |-> sc[i]]
                    ELSE IF i = n + 1 THEN [ev |-> "handler", id |-> j]
                    ELSE [ev |-> "leave", id |-> sc[2 * n + 2 - i]]]

\* an inherited middleware, then one of the group itself, then the handler
C13_Witness ==
    /\ Registering
    /\ rg.served.reg # 0 /\ rg.served.stop = {}
    /\ rg.regs[rg.served.reg].by = 2
    /\ rg.regs[rg.served.reg].scope = <<1, 2>>
    /\ rg.uses[1].on = 1 /\ rg.uses[2].on = 2
    /\ Len(rg.served.trace) = 5

\* C14: after any sequence of Group, Use and route registrations,
\* middleware added with Use to a group after it was branched is applied
\* only to routes registered on that group or on groups later branched from
\* it; it is never applied to requests routed through the parent or through
\* a sibling group.
C14_GroupIsolation ==
    Registering =>
        /\ \A e \in rg.mux :
             \A k \in Applied(e.handler) :
                InScope(k, e.handler[Len(e.handler)].id)
        /\ \A i \in 1 .. Len(rg.served.trace) :
             (rg.served.trace[i].ev = "enter")
                => InScope(rg.served.trace[i].id, rg.served.reg)

\* a Use on one group, then a route on its sibling, then a request to it
C14_Witness ==
    /\ Registering
    /\ Len(rg.routers) = 3
    /\ rg.routers[2].parent = 1 /\ rg.routers[3].parent = 1
    /\ rg.uses # <<>> /\ rg.uses[1].on = 2
    /\ rg.served.reg # 0
    /\ rg.regs[rg.served.reg].by = 3
    /\ rg.regs[rg.served.reg].at >= 1
    /\ rg.served.trace = <<[ev |-> "handler", id |-> rg.served.reg]>>

\* the paths given to Group on the way from the root down to router r
RECURSIVE PathTo(_)
PathTo(r) ==
    IF rg.routers[r].parent = 0 THEN <<>>
    ELSE PathTo(rg.routers[r].parent) \o rg.routers[r].path

\* C21: a route registered on a group nested to any depth is registered in
\* the one mux shared with the root under the concatenation, in nesting
\* order, of all ancestor group paths followed by the route path, so a
\* request sent to the root router for that method and concatenated path
\* reaches the route's handler.
C21_NestedRegistration ==
    Registering =>
        /\ \A j \in 1 .. Len(rg.regs) :
             LET g == rg.regs[j]
             IN  /\ g.pattern.path = PathTo(g.by) \o g.arg
                 /\ g.ok =>
                       /\ \E e \in rg.mux :
                             /\ e.pattern = g.pattern
                             /\ e.handler[Len(e.handler)]
                                   = [kind |-> "std", id |-> j]
                       /\ Cardinality({ e \in rg.mux : e.pattern = g.pattern }) = 1
        /\ (rg.served.reg # 0 /\ rg.served.stop = {}) =>
              \E i \in 1 .. Len(rg.served.trace) :
                 rg.served.trace[i] = [ev |-> "handler", id |-> rg.served.reg]

\* a route on a group two levels down, and a request to it
C21_Witness ==
    /\ Registering
    /\ Len(rg.routers) = 3
    /\ rg.routers[2].parent = 1 /\ rg.routers[3].parent = 2
    /\ rg.served.reg # 0
    /\ rg.regs[rg.served.reg].by = 3
    /\ rg.regs[rg.served.reg].pattern
          = [method |-> "POST", path |-> <<"/api", "/v1", "/users">>]
    /\ rg.served.trace = <<[ev |-> "handler", id |-> rg.served.reg]>>

\* the states request r goes through when it is the only one served
RECURSIVE RunFrom(_)
RunFrom(r) ==
    IF r.phase = "complete" THEN {r} ELSE {r} \cup RunFrom(StepOf(r))

OnOwnRun ==
    (rt.phase # "off" /\ rt2.phase # "off") =>
        \A i \in {1, 2} :
            Req(i) \in RunFrom(NewRequest(Req(i).chain, Req(i).calls, Req(i).ret))

OneRequestPerStep ==
    (rt.phase # "off" /\ rt2.phase # "off") =>
        /\ rt' = rt \/ rt2' = rt2
        /\ rg' = rg

\* C23: each request gets its own response-tracking flag: for any
\* interleaving of concurrently handled requests, one request writing or not
\* writing its response never changes whether another request's response is
\* written, nor its status; handling requests mutates no state shared
\* between requests.
C23_OwnFlag == [](OnOwnRun) /\ [][OneRequestPerStep]_vars

\* both handlers are running: the first has answered and will return an
\* error, the second has written nothing and will return an error too
C23_Witness ==
    /\ rt.phase = "handler" /\ rt2.phase = "handler"
    /\ rt.calls = <<[op |-> "JSONResponse", code |-> 200]>>
    /\ rt.hx = 2 /\ rt.headerWritten
    /\ rt2.calls = <<>> /\ ~rt2.headerWritten
    /\ rt.ret.kind = "plain" /\ rt2.ret.kind = "plain"

CorsServed == co.phase = "served"
CorsAllowed == IsAllowed(co.mw, co.req.origin)

\* what C25 says of every request but the max-age of a preflight
CorsOutcome ==
    CorsServed =>
        IF co.req.method = "OPTIONS"
        THEN /\ co.resp.next = 0
             /\ co.resp.status = IF CorsAllowed THEN 204 ELSE 403
             /\ CorsAllowed =>
                   /\ co.resp.headers.AllowOrigin = <<co.req.origin>>
                   /\ co.resp.headers.AllowMethods = <<co.mw.config.AllowedMethods>>
                   /\ co.resp.headers.AllowHeaders = <<co.mw.config.AllowedHeaders>>
             /\ ~CorsAllowed => co.resp.headers.AllowOrigin = <<>>
        ELSE /\ co.resp.next = 1
             /\ co.resp.status = 0
             /\ co.resp.headers.AllowOrigin
                   = IF CorsAllowed THEN <<co.req.origin>> ELSE <<>>

\* C25 as stated: every preflight from an allowed origin carries max-age
C25_AsStated ==
    /\ CorsOutcome
    /\ (CorsServed /\ co.req.method = "OPTIONS" /\ CorsAllowed) =>
          co.resp.headers.MaxAge # <<>>

\* C25: the CORS middleware never passes an OPTIONS request to the next
\* handler: it ends the request itself with status 204 and the allow
\* headers when the origin is allowed, with max-age unless the configured
\* MaxAge is negative, and with status 403 when the origin is not allowed;
\* every non-OPTIONS request is passed to the next handler exactly once,
\* with Access-Control-Allow-Origin set to the request origin only when
\* the origin is allowed.
C25_Preflight ==
    /\ CorsOutcome
    /\ (CorsServed /\ co.req.method = "OPTIONS" /\ CorsAllowed) =>
          co.resp.headers.MaxAge
             = IF co.mw.config.MaxAge > 0
               THEN <<co.mw.config.MaxAge \div 1000>> ELSE <<>>
    /\ CorsServed => co.mw.config.MaxAge # 0

\* a preflight from an allowed origin answered 204 with max-age
C25_Witness ==
    /\ CorsServed
    /\ co.req = [method |-> "OPTIONS", origin |-> "https://a.example"]
    /\ co.mw.allowedMap = {"https://a.example"}
    /\ co.resp.status = 204
    /\ co.resp.next = 0
    /\ co.resp.headers.MaxAge = <<DefaultMaxAge \div 1000>>

\* the middleware a request entered, in order
Entered(trace) ==
    LET enters == SelectSeq(trace, LAMBDA e : e.ev = "enter")
    IN  [i \in 1 .. Len(enters) |-> enters[i].id]

ChainAsRegistered ==
    Registering =>
        /\ \A j \in 1 .. Len(rg.regs) :
             \A i \in 1 .. Len(rg.regs[j].scope) :
                LET k  == rg.regs[j].scope[i]
                    on == rg.uses[k].on
                    by == rg.regs[j].by
                IN  /\ k <= rg.regs[j].at
                    /\ (on # by) =>
                          /\ IsAncestor(on, by)
                          /\ k <= rg.routers[ChildToward(on, by)].born
        /\ (rg.served.reg # 0 /\ rg.served.stop = {}) =>
              (Entered(rg.served.trace) = rg.regs[rg.served.reg].scope)

MuxKeepsHandlers ==
    Registering => \A e \in rg.mux : e \in rg.mux'

\* C26: the middleware chain of a route is fixed when the route is
\* registered: a later Use on the same router, on its parent or on any
\* group does not change the middleware run for an already registered
\* route, and a Use on a parent after a group was branched from it is not
\* applied to routes registered on that group.
C26_ChainFixed == [](ChainAsRegistered) /\ [][MuxKeepsHandlers]_vars

\* a Use on the registering router and one on its parent, both made after
\* the route was registered, then a request to the route
C26_Witness ==
    /\ Registering
    /\ Len(rg.uses) = 3
    /\ rg.served.reg # 0
    /\ rg.regs[rg.served.reg].by = 2
    /\ rg.regs[rg.served.reg].at = 1
    /\ rg.uses[1].on = 2 /\ rg.uses[2].on = 2 /\ rg.uses[3].on = 1
    /\ rg.served.trace = <<[ev |-> "enter", id |-> 1],
                           [ev |-> "handler", id |-> rg.served.reg],
                           [ev |-> "leave", id |-> 1]>>

\* the events of a trace, and the part of a trace between its first n and
\* its last n events
Events(trace) == { trace[i] : i \in 1 .. Len(trace) }
Inside(trace, n) == SubSeq(trace, n + 1, Len(trace) - n)

OuterAroundDispatch ==
    (Registering /\ rg.served.via = "wrapper" /\ rg.served.stopOuter = {}) =>
        LET n     == Len(rg.wrapper) - 1
            trace == rg.served.trace
            inner == Inside(trace, n)
        IN  /\ Len(trace) >= 2 * n + 1
            /\ \A i \in 1 .. n :
                  /\ trace[i] = [ev |-> "outer", id |-> i]
                  /\ trace[Len(trace) + 1 - i] = [ev |-> "outerDone", id |-> i]
            /\ \A e \in Events(inner) : e.ev \notin {"outer", "outerDone"}
            /\ (rg.served.reg = 0)
                  => (inner = <<[ev |-> "nomatch", id |-> 0]>>)
            /\ (rg.served.reg # 0)
                  => LET sc == rg.regs[rg.served.reg].scope
                     IN  /\ (sc # <<>>) => (inner[1] = [ev |-> "enter", id |-> sc[1]])
                         /\ (rg.served.stop = {}) =>
                               ([ev |-> "handler", id |-> rg.served.reg]
                                  \in Events(inner))

WrapperLeavesRouter ==
    (Registering /\ rg.wrapper' # rg.wrapper) =>
        /\ rg.routers' = rg.routers
        /\ rg.routes' = rg.routes
        /\ rg.mux' = rg.mux
        /\ rg.regs' = rg.regs
        /\ rg.uses' = rg.uses

\* C22: the handler returned by WithMiddleware(o1, ..., on) runs o1 first,
\* then o2, ..., then on, then the router's dispatch (route-level middleware
\* and handler), for every request passed to it; the router itself and its
\* registered routes are unchanged by the call.
C22_OuterOrder == [](OuterAroundDispatch) /\ [][WrapperLeavesRouter]_vars

C22_Witness ==
    /\ Registering
    /\ rg.served.via = "wrapper"
    /\ rg.served.reg # 0
    /\ rg.served.trace =
          <<[ev |-> "outer", id |-> 1], [ev |-> "outer", id |-> 2],
            [ev |-> "enter", id |-> 1],
            [ev |-> "handler", id |-> rg.served.reg],
            [ev |-> "leave", id |-> 1],
            [ev |-> "outerDone", id |-> 2], [ev |-> "outerDone", id |-> 1]>>

LogMatchesRegistrations ==
    Registering =>
        /\ Len(rg.routes) = Len(rg.regs)
        /\ \A j \in 1 .. Len(rg.regs) :
             LET pattern == rg.regs[j].pattern
                 prefix  == rg.routers[rg.regs[j].by].prefix
             IN  /\ \E a \in RouteArgs :
                       /\ pattern.method = a.method
                       /\ pattern.path = prefix \o a.path
                 /\ rg.routes[j] =
                       [Method |-> pattern.method,
                        Path   |-> IF pattern.path = <<>> THEN <<"/">>
                                   ELSE pattern.path]

LogOnlyGrowsAtEnd ==
    Registering =>
        /\ Len(rg.routes') \in {Len(rg.routes), Len(rg.routes) + 1}
        /\ SubSeq(rg.routes', 1, Len(rg.routes)) = rg.routes
        /\ (Len(rg.routes') = Len(rg.routes) + 1)
              <=> (Len(rg.regs') = Len(rg.regs) + 1)

\* C20: the route log shared by the root and all its groups is append-only
\* and ordered: each registration through the root or any group appends
\* exactly one entry (method, group prefix + path) at the end, entries
\* already present are never changed, removed or reordered, and a
\* registration whose prefix + path is empty is logged with path "/".
C20_RouteLog == [](LogMatchesRegistrations) /\ [][LogOnlyGrowsAtEnd]_vars

C20_Witness ==
    /\ Registering
    /\ Len(rg.routes) = 3
    /\ rg.routes[1] = [Method |-> "GET", Path |-> <<"/">>]
    /\ rg.routes[2] = [Method |-> "POST", Path |-> <<"/api", "/users">>]
    /\ rg.routes[3] = [Method |-> "POST", Path |-> <<"/users">>]

-----------------------------------------------------------------------------
(* Properties of the router *)

\* number of times a status is committed to the underlying sink: every
\* WriteHeader call it receives, and a Write it receives first
Commits(sink) ==
    Cardinality({ i \in 1 .. Len(sink) : sink[i].op = "WriteHeader" })
    + (IF sink # <<>> /\ sink[1].op = "Write" THEN 1 ELSE 0)

ThroughWrapper(sink) ==
    { i \in 1 .. Len(sink) : sink[i].op = "WriteHeader" /\ sink[i].via = "rw" }

ByMiddleware(sink) == { i \in 1 .. Len(sink) : sink[i].via = "mw" }

\* C1 as stated: for every request, whatever the middleware chain, the
\* status is committed to the underlying sink at most once.
C1_AsStated == Commits(rt.sink) <= 1

\* C1 (amended): the handler and error translation together commit the
\* status to the underlying sink at most once, and always before any body
\* they write; a request whose middleware write nothing themselves has at
\* most one commit in all.
C1_WrapperCommitsOnce ==
    /\ Cardinality(ThroughWrapper(rt.sink)) <= 1
    /\ \A i \in 1 .. Len(rt.sink) :
          (rt.sink[i].op = "Write" /\ rt.sink[i].via = "rw")
             => \E j \in ThroughWrapper(rt.sink) : j < i
    /\ (ByMiddleware(rt.sink) = {}) => Commits(rt.sink) <= 1

C1_Witness ==
    /\ rt.phase = "complete"
    /\ Len(rt.chain) = 2
    /\ rt.calls = <<[op |-> "WriteHeader", code |-> 200], [op |-> "WriteHeader", code |-> 201]>>
    /\ rt.ret.kind = "plain"
    /\ rt.sink = <<SinkWriteHeader(200, "rw")>>

\* what reached the sink through the responseWriter of the standard handler
FromWrapper(sink) == SelectSeq(sink, LAMBDA x : x.via = "rw")

\* the handler of request r has returned and its error has been translated
Returned(r) == r.phase \in {"unwind", "complete"} /\ r.invoked = 1

\* C15: if a handler returns an AppError, directly or wrapped inside another
\* error, and has written nothing, the router writes the envelope with the
\* AppError's code as HTTP status and as code, null data, and the AppError's
\* message as error; the wrapper's text and the AppError's wrapped cause do
\* not appear.
C15_AppErrorEnvelope ==
    (Returned(rt) /\ rt.calls = <<>> /\ IsAppError(rt.ret)) =>
        LET out == FromWrapper(rt.sink)
        IN  /\ out = <<SinkWriteHeader(rt.ret.code, "rw"),
                       SinkWrite([code |-> rt.ret.code, data |-> "null",
                                  error |-> rt.ret.msg], "rw")>>
            /\ out[2].body.error # rt.ret.cause
            /\ (rt.ret.text # rt.ret.msg) => (out[2].body.error # rt.ret.text)

C15_Witness ==
    /\ rt.phase = "complete"
    /\ rt.invoked = 1
    /\ rt.calls = <<>>
    /\ rt.ret.kind = "wrapsApp"
    /\ rt.sink = <<SinkWriteHeader(400, "rw"),
                   SinkWrite([code |-> 400, data |-> "null",
                              error |-> "Invalid Request"], "rw")>>

\* C16: if a handler returns a non-nil error that is not an AppError and has
\* written nothing, the response is status 500 with a fixed generic message;
\* two requests that differ only in the text of the returned error produce
\* identical responses.
C16_GenericError ==
    /\ \A r \in {rt, rt2} :
          (Returned(r) /\ r.calls = <<>> /\ r.ret.kind = "plain") =>
             FromWrapper(r.sink)
                = <<SinkWriteHeader(500, "rw"),
                    SinkWrite([code |-> 500, data |-> "null",
                               error |-> "internal server error"], "rw")>>
    /\ (/\ rt.phase = "complete" /\ rt2.phase = "complete"
        /\ rt.chain = rt2.chain /\ rt.calls = rt2.calls
        /\ rt.ret.kind = "plain" /\ rt2.ret.kind = "plain")
          => rt.sink = rt2.sink

C16_Witness ==
    /\ rt.phase = "complete" /\ rt2.phase = "complete"
    /\ rt.invoked = 1 /\ rt2.invoked = 1
    /\ rt.ret.text = "db unreachable" /\ rt2.ret.text = "disk full"
    /\ Len(rt.sink) = 2
    /\ rt.sink = rt2.sink

\* the handler has written through its context and returns an error
WroteThenFailed(r) ==
    /\ r.calls # <<>>
    /\ r.hx > Len(r.calls)
    /\ r.ret.kind # "nil"

\* C17: if a handler has already written a response (status or body) through
\* its context and then returns a non-nil error of either kind, error
\* translation writes nothing: the status and body the client receives are
\* exactly those the handler wrote.
C17_NoSecondResponse ==
    [][ /\ (rt.phase = "handler" /\ WroteThenFailed(rt))
            => (rt.headerWritten /\ rt'.sink = rt.sink)
        /\ (rt.phase = "unwind" /\ rt.invoked = 1 /\ WroteThenFailed(rt))
            => (FromWrapper(rt'.sink) = FromWrapper(rt.sink)) ]_vars

C17_Witness ==
    /\ rt.phase = "complete"
    /\ rt.calls = <<[op |-> "WriteHeader", code |-> 201],
                    [op |-> "Write", code |-> 0]>>
    /\ rt.ret.kind = "app"
    /\ rt.sink = <<SinkWriteHeader(201, "rw"), SinkWrite(RawBody, "rw")>>

\* the status committed by a first call c on the wrapper
FirstStatus(c) == IF c.op = "Write" THEN 200 ELSE c.code

WrapperState ==
    LET out == FromWrapper(rt.sink)
    IN  /\ (rt.phase = "handler" /\ rt.hx = 1)
              => (~rt.headerWritten /\ out = <<>>)
        /\ (rt.phase \in {"handler", "unwind", "complete"}
              /\ rt.invoked = 1 /\ rt.hx > 1)
              => /\ rt.headerWritten
                 /\ out # <<>>
                 /\ out[1] = SinkWriteHeader(FirstStatus(rt.calls[1]), "rw")
                 /\ \A i \in 2 .. Len(out) : out[i].op = "Write"

\* C18: on the responseWriter, for any sequence of WriteHeader and Write
\* calls: the first WriteHeader or Write commits the status (200 when it is
\* a Write with no prior status), every later WriteHeader is ignored and
\* never reaches the underlying sink, and HeaderWritten is false before the
\* first such call and true forever after it.
C18_WriteOnce ==
    /\ [](WrapperState)
    /\ [][(rt.phase = "handler" /\ rt.headerWritten) => rt'.headerWritten]_vars

C18_Witness ==
    /\ rt.phase = "complete"
    /\ rt.calls = <<[op |-> "Write", code |-> 0],
                    [op |-> "WriteHeader", code |-> 201]>>
    /\ rt.ret.kind = "nil"
    /\ rt.headerWritten
    /\ rt.sink = <<SinkWriteHeader(200, "rw"), SinkWrite(RawBody, "rw")>>

HandlerAfterChain ==
    /\ rt.invoked <= 1
    /\ rt.entered = [i \in 1 .. Len(rt.entered) |-> i]
    /\ (rt.invoked = 1 \/ rt.phase = "handler")
          => /\ rt.invoked = 1
             /\ Len(rt.entered) = Len(rt.chain)
             /\ \A i \in 1 .. Len(rt.chain) : rt.chain[i].next
    /\ \A i \in 1 .. Len(rt.entered) :
          (~rt.chain[i].next)
             => /\ i = Len(rt.entered)
                /\ rt.invoked = 0
                /\ rt.phase \in {"unwind", "complete"}

NoWayBack ==
    /\ (rt.phase = "complete") => (rt' = rt)
    /\ (rt.phase \in {"unwind", "complete"}) => (rt'.phase # "handler")
    /\ (rt.phase = "handler") => (rt'.phase \in {"handler", "unwind"})

=============================================================================
